---- MODULE Spec2Model ----
(***************************************************************************)
(* Model of the release pipeline of scripts/pdg.py (cmd_release) and of    *)
(* the helpers it is built from.  Text (tags, versions, commit subjects)   *)
(* is modelled as sequences of one-character strings so that prefix tests, *)
(* stripping, splitting and number formatting are computed, not assumed.   *)
(***************************************************************************)
EXTENDS Integers, Sequences, FiniteSets, TLC

\* Python's None where a string is expected; like the empty string it is falsy,
\* and the code tests these values only for truthiness
None == <<>>

Truthy(s) == s # <<>>

(***************************************************************************)
(* Characters and Python string primitives                                 *)
(***************************************************************************)
Digits == {"0", "1", "2", "3", "4", "5", "6", "7", "8", "9"}

\* int() of one decimal digit
DigitVal(c) ==
    CASE c = "0" -> 0 [] c = "1" -> 1 [] c = "2" -> 2 [] c = "3" -> 3
      [] c = "4" -> 4 [] c = "5" -> 5 [] c = "6" -> 6 [] c = "7" -> 7
      [] c = "8" -> 8 [] c = "9" -> 9

\* the decimal digit of a number below ten
DigitChar(n) ==
    CASE n = 0 -> "0" [] n = 1 -> "1" [] n = 2 -> "2" [] n = 3 -> "3"
      [] n = 4 -> "4" [] n = 5 -> "5" [] n = 6 -> "6" [] n = 7 -> "7"
      [] n = 8 -> "8" [] n = 9 -> "9"

\* code point of a character, as far as the characters used here go
Ord(c) ==
    CASE c \in Digits -> 48 + DigitVal(c)
      [] c = " " -> 32 [] c = "(" -> 40 [] c = ")" -> 41 [] c = "-" -> 45
      [] c = "." -> 46 [] c = ":" -> 58 [] c = "|" -> 124
      [] c = "X" -> 88 [] c = "Y" -> 89 [] c = "Z" -> 90
      [] c = "a" -> 97 [] c = "b" -> 98 [] c = "c" -> 99 [] c = "d" -> 100
      [] c = "e" -> 101 [] c = "f" -> 102 [] c = "h" -> 104 [] c = "i" -> 105
      [] c = "l" -> 108 [] c = "o" -> 111 [] c = "p" -> 112 [] c = "r" -> 114
      [] c = "s" -> 115 [] c = "t" -> 116 [] c = "u" -> 117 [] c = "v" -> 118
      [] c = "x" -> 120

\* s[from:] of Python
Drop(s, n) == SubSeq(s, n + 1, Len(s))

\* s.startswith(p)
StartsWith(s, p) == Len(s) >= Len(p) /\ SubSeq(s, 1, Len(p)) = p

\* s.lstrip(c): every leading occurrence of the character c is removed
RECURSIVE LStrip(_, _)
LStrip(s, c) ==
    IF s # <<>> /\ Head(s) = c THEN LStrip(Tail(s), c) ELSE s

\* s.split(sep) for a one-character separator: empty fields are kept
RECURSIVE SplitFrom(_, _, _)
SplitFrom(s, sep, cur) ==
    IF s = <<>> THEN <<cur>>
    ELSE IF Head(s) = sep THEN <<cur>> \o SplitFrom(Tail(s), sep, <<>>)
    ELSE SplitFrom(Tail(s), sep, Append(cur, Head(s)))

Split(s, sep) == SplitFrom(s, sep, <<>>)

\* \d+
IsDigits(s) == s # <<>> /\ \A i \in 1..Len(s) : s[i] \in Digits

\* int(s) of a digit string
RECURSIVE ToInt(_)
ToInt(s) ==
    IF s = <<>> THEN 0
    ELSE 10 * ToInt(SubSeq(s, 1, Len(s) - 1)) + DigitVal(s[Len(s)])

\* str(n), as an f-string formats a non-negative int
RECURSIVE ToStr(_)
ToStr(n) ==
    IF n < 10 THEN <<DigitChar(n)>>
    ELSE Append(ToStr(n \div 10), DigitChar(n % 10))

(***************************************************************************)
(* Version tags: pattern, git's version sort, latest tag, increment        *)
(***************************************************************************)

\* re.match(r"^v?\d+\.\d+\.\d+$", tag)
MatchesSemver(tag) ==
    LET rest  == IF tag # <<>> /\ Head(tag) = "v" THEN Tail(tag) ELSE tag
        parts == Split(rest, ".")
    IN  Len(parts) = 3 /\ \A i \in 1..3 : IsDigits(parts[i])

\* character class used by git's versioncmp: 0 other, 1 digit, 2 the digit zero
VcClass(code) ==
    (IF code = 48 THEN 1 ELSE 0) + (IF code >= 48 /\ code <= 57 THEN 1 ELSE 0)

\* the character code at (1-based) position i, 0 (NUL) past the end
VcAt(s, i) == IF i <= Len(s) THEN Ord(s[i]) ELSE 0

VcIsDigit(s, i) == VcAt(s, i) >= 48 /\ VcAt(s, i) <= 57

\* next_state[] of versioncmp; states S_N = 0, S_I = 3, S_F = 6, S_Z = 9
VcNextState(idx) ==
    <<0, 3, 9,   0, 3, 3,   0, 6, 6,   0, 6, 9>>[idx + 1]

\* result_type[] of versioncmp; CMP = 2, LEN = 3
VcResultType(idx) ==
    << 2,  2,  2,  2,  3,  2,  2,  2,  2,
       2, -1, -1,  1,  3,  3,  1,  3,  3,
       2,  2,  2,  2,  2,  2,  2,  2,  2,
       2,  1,  1, -1,  2,  2, -1,  2,  2 >>[idx + 1]

\* the LEN case: the longer run of digits is the greater
RECURSIVE VcLen(_, _, _, _)
VcLen(a, b, i, diff) ==
    IF VcIsDigit(a, i)
    THEN IF ~VcIsDigit(b, i) THEN 1 ELSE VcLen(a, b, i + 1, diff)
    ELSE IF VcIsDigit(b, i) THEN -1 ELSE diff

\* the scanning loop: i is the position of the characters being compared
RECURSIVE VcScan(_, _, _, _)
VcScan(a, b, i, state) ==
    LET c1 == VcAt(a, i)
        c2 == VcAt(b, i)
        diff == c1 - c2
    IN  IF diff = 0
        THEN IF c1 = 0 THEN 0
             ELSE VcScan(a, b, i + 1,
                         VcNextState(state) + VcClass(VcAt(a, i + 1)))
        ELSE LET rt == VcResultType(state * 3 + VcClass(c2))
             IN  IF rt = 2 THEN diff
                 ELSE IF rt = 3 THEN VcLen(a, b, i + 1, diff)
                 ELSE rt

\* versioncmp(a, b) of git, the order of `git tag --sort=v:refname`
\* (no versionsort.suffix configured): <0, 0, >0
versioncmp(a, b) == VcScan(a, b, 1, VcClass(VcAt(a, 1)))

\* stdout of `git tag --sort=-v:refname`: the tags, greatest first
RECURSIVE GitTagSortDesc(_)
GitTagSortDesc(T) ==
    IF T = {} THEN <<>>
    ELSE LET m == CHOOSE t \in T : \A u \in T : versioncmp(t, u) >= 0
         IN  <<m>> \o GitTagSortDesc(T \ {m})

\* result.stdout.strip().split("\n"): no tag at all gives one empty line
TagLines(T) == IF T = {} THEN << <<>> >> ELSE GitTagSortDesc(T)

\* the loop of get_latest_tag: the first line matching the pattern, marker stripped
RECURSIVE FirstSemver(_)
FirstSemver(lines) ==
    IF lines = <<>> THEN None
    ELSE IF MatchesSemver(Head(lines)) THEN LStrip(Head(lines), "v")
    ELSE FirstSemver(Tail(lines))

\* get_latest_tag(): None when git fails
get_latest_tag(T, gitOk) == IF ~gitOk THEN None ELSE FirstSemver(TagLines(T))

\* increment_version with the lower components kept instead of reset
increment_version_NoReset(ver, bump) ==
    LET fields == Split(ver, ".")
        parts  == [i \in 1..Len(fields) |-> ToInt(fields[i])]
    IN  IF bump = "major"
        THEN ToStr(parts[1] + 1) \o <<".">> \o ToStr(parts[2]) \o <<".">>
                 \o ToStr(parts[3])
        ELSE IF bump = "minor"
        THEN ToStr(parts[1]) \o <<".">> \o ToStr(parts[2] + 1) \o <<".">>
                 \o ToStr(parts[3])
        ELSE ToStr(parts[1]) \o <<".">> \o ToStr(parts[2]) \o <<".">>
                 \o ToStr(parts[3] + 1)

\* increment_version(version, bump)
increment_version(ver, bump) ==
    LET fields == Split(ver, ".")
        parts  == [i \in 1..Len(fields) |-> ToInt(fields[i])]
    IN  IF bump = "major"
        THEN ToStr(parts[1] + 1) \o <<".", "0", ".", "0">>
        ELSE IF bump = "minor"
        THEN ToStr(parts[1]) \o <<".">> \o ToStr(parts[2] + 1) \o <<".", "0">>
        ELSE ToStr(parts[1]) \o <<".">> \o ToStr(parts[2]) \o <<".">>
                 \o ToStr(parts[3] + 1)


(***************************************************************************)
(* Commit history and release notes                                        *)
(***************************************************************************)

\* one line of `git log --pretty=format:%s|%h|%an`
LogLine(c) == c.subject \o <<"|">> \o c.hash \o <<"|">> \o c.author

\* `git log v<tag>..HEAD ...`: return code and the lines of stdout, newest
\* commit first; the command fails when no ref named v<tag> exists
GitLog(tag, T, log) ==
    IF (<<"v">> \o tag) \in T
    THEN [returncode |-> 0, lines |-> [i \in 1..Len(log) |-> LogLine(log[i])]]
    ELSE [returncode |-> 128, lines |-> <<>>]

\* the loop of get_commits_since_tag over the output lines
RECURSIVE ParseLogLines(_)
ParseLogLines(lines) ==
    IF lines = <<>> THEN <<>>
    ELSE LET parts == Split(Head(lines), "|")
         IN  (IF Len(parts) >= 2
              THEN << [message |-> parts[1], hash |-> parts[2]] >>
              ELSE <<>>) \o ParseLogLines(Tail(lines))

\* get_commits_since_tag(tag): [] when git fails or prints nothing
get_commits_since_tag(tag, T, log) ==
    LET result == GitLog(tag, T, log)
    IN  IF result.returncode # 0 \/ result.lines = <<>> THEN <<>>
        ELSE ParseLogLines(result.lines)

P_feat == <<"f", "e", "a", "t">>
P_fix == <<"f", "i", "x">>
P_perf == <<"p", "e", "r", "f">>
P_refactor == <<"r", "e", "f", "a", "c", "t", "o", "r">>
P_docs == <<"d", "o", "c", "s">>

\* the if/elif chain of categorize_commits, for one message
CategoryOf(msg) ==
    IF StartsWith(msg, P_feat) THEN "feat"
    ELSE IF StartsWith(msg, P_fix) THEN "fix"
    ELSE IF StartsWith(msg, P_perf) THEN "perf"
    ELSE IF StartsWith(msg, P_refactor) THEN "refactor"
    ELSE IF StartsWith(msg, P_docs) THEN "docs"
    ELSE "other"

Buckets == {"feat", "fix", "perf", "refactor", "docs", "other"}

\* the messages of one bucket, in the order of the commit list
RECURSIVE BucketOf(_, _)
BucketOf(commits, cat) ==
    IF commits = <<>> THEN <<>>
    ELSE (IF CategoryOf(Head(commits).message) = cat
          THEN <<Head(commits).message>> ELSE <<>>)
         \o BucketOf(Tail(commits), cat)

\* categorize_commits(commits)
categorize_commits(commits) == [cat \in Buckets |-> BucketOf(commits, cat)]

\* re.sub(r"^<prefix>[:\s]*", "", msg) for a msg that starts with the prefix
RECURSIVE LStripColonSpace(_)
LStripColonSpace(s) ==
    IF s # <<>> /\ Head(s) \in {":", " "} THEN LStripColonSpace(Tail(s)) ELSE s

StripPrefix(msg, prefix) ==
    IF StartsWith(msg, prefix) THEN LStripColonSpace(Drop(msg, Len(prefix)))
    ELSE msg

\* the heading lines of the document
TitleLine(ver) == <<"## v">> \o ver \o <<"\n">>
H_feat == <<"## New Features\n">>
H_fix == <<"## Bug Fixes\n">>
H_perf == <<"## Performance\n">>
H_refactor == <<"## Internal Changes\n">>

\* one section: heading, one bullet per message, an empty line; nothing when
\* the bucket is empty
Section(heading, prefix, msgs) ==
    IF msgs = <<>> THEN <<>>
    ELSE <<heading>>
         \o [i \in 1..Len(msgs) |-> <<"-", " ">> \o StripPrefix(msgs[i], prefix)]
         \o << <<>> >>

\* generate_release_notes(version, prev_tag): the list `lines`; the file holds
\* the lines joined by newlines
generate_release_notes(ver, prev_tag, T, log) ==
    <<TitleLine(ver)>> \o
    (IF Truthy(prev_tag)
     THEN LET categories == categorize_commits(get_commits_since_tag(prev_tag, T, log))
          IN  Section(H_feat, P_feat, categories["feat"])
              \o Section(H_fix, P_fix, categories["fix"])
              \o Section(H_perf, P_perf, categories["perf"])
              \o Section(H_refactor, P_refactor, categories["refactor"])
     ELSE <<>>)


(***************************************************************************)
(* State of one release run and of the files and tags it works on          *)
(***************************************************************************)
VARIABLES
    cli,         \* the command line: version (None when omitted), bump
                 \* ("absent" when --bump is not given), draft, skip_checks
    tags,        \* the tags of the repository
    tags0,       \* the tags when the run started
    gitOk,       \* whether `git tag` exits with code 0
    commitLog,   \* the commits after the latest tag, newest first
    stage,       \* where cmd_release is
    latest_tag,  \* cmd_release's latest_tag
    version,     \* cmd_release's version
    lintResult,  \* "none" until lint_all was called, then "ok" or "fail"
    testResult,  \* the same for test_frontend
    buildResult, \* the same for build_all
    invoked,     \* the operations performed so far, in order
    build,       \* build/Release: the binary and the copy of the web output
    dist,        \* the bundle directory
    notes,       \* RELEASE_NOTES_v<version>.md
    zip,         \* Velocity-DB-v<version>.zip
    printed,     \* the commands printed at the end
    result,      \* "running", or how the command ended: "True", "False",
                 \* "raised", "exit1"
    categories,  \* generate_release_notes' categories, once it has them
    run,         \* the command being run and where it is
    runs,        \* the number of commands started so far
    host,        \* the tools found on the machine
    frontend,    \* frontend/: manifest, installed dependencies, caches, dist
    bdir,        \* build/: configuration cache, binaries, copied web output
    logs         \* log/

\* what the release steps never look at
toolVars == <<run, runs, host, frontend, bdir, logs>>

vars == <<cli, tags, tags0, gitOk, commitLog, stage, latest_tag, version,
          lintResult, testResult, buildResult, invoked, build, dist, notes,
          zip, printed, result, categories, toolVars>>

BumpKinds == {"patch", "minor", "major"}

\* argparse of the release sub-command: --bump defaults to patch
ParseArgs(c) ==
    [version |-> c.version,
     bump |-> IF c.bump = "absent" THEN "patch" ELSE c.bump,
     draft |-> c.draft,
     skip_checks |-> c.skip_checks]

args == ParseArgs(cli)

\* a first release numbered 0.1.0
DefaultVersion_Zero == <<"0", ".", "1", ".", "0">>

DefaultVersion == <<"1", ".", "0", ".", "0">>

\* version resolution that applies the bump to the default as well
resolve_version_BumpDefault(a, latest) ==
    IF Truthy(a.version) THEN LStrip(a.version, "v")
    ELSE increment_version(IF Truthy(latest) THEN latest ELSE DefaultVersion,
                           IF a.bump # "absent" THEN a.bump ELSE "patch")

\* version resolution that lets an existing tag win over the explicit version
resolve_version_TagFirst(a, latest) ==
    IF Truthy(latest)
    THEN increment_version(latest, IF a.bump # "absent" THEN a.bump ELSE "patch")
    ELSE IF Truthy(a.version) THEN LStrip(a.version, "v")
    ELSE DefaultVersion

\* "Determine version" of cmd_release
resolve_version(a, latest) ==
    IF Truthy(a.version) THEN LStrip(a.version, "v")
    ELSE IF Truthy(latest)
    THEN increment_version(latest, IF a.bump # "absent" THEN a.bump ELSE "patch")
    ELSE DefaultVersion

\* lint_all: both linters run, the result is their conjunction
lint_all(success1, success2) == success1 /\ success2

\* a lint failure that does not end the run
AfterLint_Ignore(ok) == "RunningChecks"

\* `if not lint.lint_all(...): return False`
AfterLint(ok) == IF ok THEN "RunningChecks" ELSE "Failed"

\* `if not test.test_frontend(...): return False`
AfterTest(ok) == IF ok THEN "Building" ELSE "Failed"

\* a build failure that does not end the run
AfterBuild_Ignore(ok) == "Packaging"

\* `if not build.build_all(...): return False`
AfterBuild(ok) == IF ok THEN "Packaging" ELSE "Failed"

\* the two existence checks before the copies
AfterInputCheck(exe_exists, frontend_exists) ==
    IF ~exe_exists THEN "Failed"
    ELSE IF ~frontend_exists THEN "Failed"
    ELSE "GeneratingNotes"

\* draft_flag of the printed publish command
DraftFlag(draft) == IF draft THEN "--draft " ELSE ""

ReturnOf(nextStage, res) == IF nextStage = "Failed" THEN "False" ELSE res

ExeFile == <<"VelocityDB.exe">>
StaleFile == <<"stale.txt">>
FrontendTrees == {{"index.html"}, {"index.html", "app.js"}}
NoBuildOutput == [exe |-> FALSE, frontend_exists |-> FALSE, frontend |-> {}]
EmptyDir == [exists |-> TRUE, files |-> {}]
Absent == [exists |-> FALSE, files |-> {}]
NoZip ==
    [exists |-> FALSE, byRun |-> FALSE, open |-> FALSE, entries |-> {},
     name |-> None]
NoNotes == [exists |-> FALSE, lines |-> <<>>]
NothingPrinted == [done |-> FALSE]

(***************************************************************************)
(* The other commands: what they are given and what they work on           *)
(***************************************************************************)

\* generate_release_notes before it has categorized anything
NoCategories == [cat \in Buckets |-> <<>>]

\* the generators build_backend chooses between, and a build directory
\* without CMakeCache.txt
Ninja == "Ninja"
VisualStudio == "Visual Studio 17 2022"
NoCache == "no CMakeCache.txt"

\* CMakeCache.txt is there and has no line CMAKE_GENERATOR:
NoEntry == "no CMAKE_GENERATOR entry"

\* get_cached_generator found no generator (Python's None)
NoGenerator == "None"

\* no reconciliation of the generator so far in this command
NoReconcile ==
    [called |-> FALSE, cached |-> NoGenerator, generator |-> NoGenerator,
     deleted |-> {}]

\* no configure step so far in this command
NoConfigure == [called |-> FALSE, generator |-> NoCache, cached |-> NoCache]

BuildTypes == {"Debug", "Release"}

\* shutil.which(<tool>) and `<tool> --version` on this machine: the tool is
\* not on the search path, is there and fails the query, or answers it
ToolStates == {"absent", "unresponsive", "ok"}

\* a provider on the search path is taken without the version query
find_package_manager_NoQuery(h) ==
    IF h.bun # "absent" THEN "bun"
    ELSE IF h.npm # "absent" THEN "npm"
    ELSE "none"

\* find_package_manager(): bun when it is found and answers, else npm the
\* same way, else None ("none")
find_package_manager(h) ==
    IF h.bun # "absent" /\ h.bun = "ok" THEN "bun"
    ELSE IF h.npm # "absent" /\ h.npm = "ok" THEN "npm"
    ELSE "none"

\* a place where vcvars64.bat may be: <root>\Microsoft Visual Studio\
\* <version>\<edition>\VC\Auxiliary\Build\vcvars64.bat
Candidate(root, vs, edition) ==
    [root |-> root, version |-> vs, edition |-> edition]

\* possible_paths of utils.find_vcvars, in its order
possible_paths ==
    << Candidate("C:/Program Files", "2022", "Community"),
       Candidate("C:/Program Files", "2022", "Professional"),
       Candidate("C:/Program Files", "2022", "Enterprise"),
       Candidate("D:/Program Files", "2022", "Community"),
       Candidate("C:/Program Files (x86)", "2022", "BuildTools"),
       Candidate("C:/Program Files", "18", "Community"),
       Candidate("C:/Program Files", "18", "Professional"),
       Candidate("C:/Program Files", "18", "Enterprise") >>

\* possible_paths of scripts/build.py and scripts/cpp_check.py: the same and
\* the VS 2019 fallbacks
legacy_possible_paths ==
    possible_paths \o
    << Candidate("C:/Program Files (x86)", "2019", "Community"),
       Candidate("C:/Program Files (x86)", "2019", "Professional"),
       Candidate("C:/Program Files (x86)", "2019", "Enterprise") >>

\* no vcvars64.bat (Python's None)
NotFound == Candidate("", "", "")

\* `for path in possible_paths: if path.exists(): return path`, `return None`
find_vcvars(paths, existing) ==
    LET hits == {i \in 1..Len(paths) : paths[i] \in existing}
    IN  IF hits = {} THEN NotFound
        ELSE paths[CHOOSE i \in hits : \A j \in hits : i <= j]

\* `"=" in line`
HasEquals(line) == \E i \in 1..Len(line) : line[i] = "="

\* line.partition("="): the text before the first "=" and the text after it
partition(line) ==
    LET i == CHOOSE k \in 1..Len(line) :
                 line[k] = "=" /\ \A j \in 1..(k - 1) : line[j] # "="
    IN  <<SubSeq(line, 1, i - 1), SubSeq(line, i + 1, Len(line))>>

\* `env = {}`, then `env[key] = value` for every line with "=": a mapping
\* as its set of <<key, value>> pairs, a later line replacing an earlier one
RECURSIVE parse_env(_)
parse_env(lines) ==
    IF lines = <<>> THEN {}
    ELSE LET before == parse_env(SubSeq(lines, 1, Len(lines) - 1))
             line == lines[Len(lines)]
         IN  IF HasEquals(line)
             THEN {e \in before : e[1] # partition(line)[1]}
                     \cup {partition(line)}
             ELSE before

\* what get_msvc_env printed about a toolchain it did not find: nothing
NoDiagnostic == [error |-> FALSE, searched |-> {}]

\* "Searched locations:" of scripts/build.py, each line <root>\Microsoft
\* Visual Studio\<version>\*
LegacySearched ==
    {[root |-> "C:/Program Files", version |-> "2022"],
     [root |-> "D:/Program Files", version |-> "2022"],
     [root |-> "C:/Program Files (x86)", version |-> "2022"]}

\* get_msvc_env was not called
NoEnv ==
    [called |-> FALSE, outcome |-> "none", vcvars |-> NotFound, env |-> {},
     ambient |-> FALSE, diagnostic |-> NoDiagnostic]

\* utils.get_msvc_env(): sys.exit(1) without a script or when the script
\* exits with a non-zero code, else the mapping parsed from its output
get_msvc_env(h) ==
    LET vcvars == find_vcvars(possible_paths, h.vcvars)
    IN  IF vcvars = NotFound
        THEN [NoEnv EXCEPT !.called = TRUE, !.outcome = "exit1",
                           !.diagnostic = [error |-> TRUE, searched |-> {}]]
        ELSE IF h.vcvars_rc # 0
        THEN [NoEnv EXCEPT !.called = TRUE, !.outcome = "exit1",
                           !.vcvars = vcvars]
        ELSE [NoEnv EXCEPT !.called = TRUE, !.outcome = "env",
                           !.vcvars = vcvars, !.env = parse_env(h.vcvars_out)]

\* get_msvc_env() of scripts/build.py: sys.exit(1) without a script, when
\* the script exits with a non-zero code and when no variable was captured
build_get_msvc_env(h) ==
    LET vcvars == find_vcvars(legacy_possible_paths, h.vcvars)
        env == parse_env(h.vcvars_out)
    IN  IF vcvars = NotFound
        THEN [NoEnv EXCEPT !.called = TRUE, !.outcome = "exit1",
                           !.diagnostic = [error |-> TRUE,
                                           searched |-> LegacySearched]]
        ELSE IF h.vcvars_rc # 0 \/ env = {}
        THEN [NoEnv EXCEPT !.called = TRUE, !.outcome = "exit1",
                           !.vcvars = vcvars]
        ELSE [NoEnv EXCEPT !.called = TRUE, !.outcome = "env",
                           !.vcvars = vcvars, !.env = env]

\* get_msvc_env() of scripts/cpp_check.py: os.environ.copy() without a
\* script and when the script exits with a non-zero code
cpp_check_get_msvc_env(h) ==
    LET vcvars == find_vcvars(legacy_possible_paths, h.vcvars)
    IN  IF vcvars = NotFound \/ h.vcvars_rc # 0
        THEN [NoEnv EXCEPT !.called = TRUE, !.outcome = "env",
                           !.vcvars = vcvars, !.ambient = TRUE]
        ELSE [NoEnv EXCEPT !.called = TRUE, !.outcome = "env",
                           !.vcvars = vcvars, !.env = parse_env(h.vcvars_out)]

\* what `vcvars64.bat && set` prints on a machine where it works
L_PATH == <<"P", "=", "x">>
VcvarsOutput == <<L_PATH>>

\* a machine with every tool
DevHost ==
    [bun |-> "ok", npm |-> "ok", ninja |-> TRUE, vcvars |-> {possible_paths[1]},
     vcvars_rc |-> 0, vcvars_out |-> VcvarsOutput]

\* frontend/ of a fresh checkout: the manifest and nothing else
NoDir == [exists |-> FALSE, mtime |-> 0]
FrontendDistName == "frontend/dist"
ViteCaches == {"frontend/node_modules/.vite", "frontend/.vite"}
FrontendCache == "frontend/node_modules/.cache"
Checkout ==
    [package_json |-> [exists |-> TRUE, mtime |-> 0], node_modules |-> NoDir,
     dist |-> Absent, caches |-> {}]

\* build/ does not exist
NoBuildDir ==
    [exists |-> FALSE, cache |-> NoCache, cmake_files |-> FALSE,
     predategrip |-> FALSE, webview2 |-> {}]

\* log/ does not exist
NoLogs == [exists |-> FALSE, files |-> {}]

\* the files and tags the commands work on
Files ==
    [frontend |-> frontend, bdir |-> bdir, build |-> build, dist |-> dist,
     logs |-> logs, tags |-> tags]

\* a working tree with the manifest and nothing else
NoFiles ==
    [frontend |-> Checkout, bdir |-> NoBuildDir, build |-> NoBuildOutput,
     dist |-> Absent, logs |-> NoLogs, tags |-> {}]

\* the process has not exited
NoExit == -1

\* no second invocation of package runs beside this one
NoOther == [pc |-> "none", result |-> "none"]

\* what the steps of lint_all and of cmd_check returned: nothing yet
NoChecks ==
    [lint |-> "none", typecheck |-> "none", cpp |-> "none", test |-> "none",
     build |-> "none"]

\* no command is running
NoRun ==
    [cmd |-> "none", pc |-> "end", target |-> "", type |-> "", clean |-> FALSE,
     fe |-> "none", deps |-> "unchecked", configure |-> NoConfigure,
     reconcile |-> NoReconcile, msvc |-> NoEnv, swallowed |-> {},
     checks |-> NoChecks, exit |-> NoExit, other |-> NoOther,
     dist0 |-> Absent, files0 |-> NoFiles]

\* cmd_release is running; `stage` says where it is
ReleaseRun == [NoRun EXCEPT !.cmd = "release", !.pc = "stage"]

\* a command begins: what it remembers of the state it found
Begin(cmd, pc) ==
    [NoRun EXCEPT !.cmd = cmd, !.pc = pc, !.dist0 = dist, !.files0 = Files]

\* the part of the state the release steps never look at, during a release
ToolsUntouched ==
    /\ run = [ReleaseRun EXCEPT !.dist0 = dist]
    /\ runs = 1
    /\ host = DevHost
    /\ frontend = Checkout
    /\ bdir = IF build = NoBuildOutput THEN NoBuildDir
              ELSE [NoBuildDir EXCEPT !.exists = TRUE, !.cache = Ninja,
                                      !.cmake_files = TRUE]
    /\ logs = NoLogs

\* build/ after a configure step that succeeded and the end of build_backend
ConfiguredDir(d, has_ninja) ==
    [d EXCEPT !.exists = TRUE,
              !.cache = IF has_ninja THEN Ninja ELSE VisualStudio,
              !.cmake_files = TRUE,
              !.webview2 = {}]

(***************************************************************************)
(* cmd_release, one action per step                                        *)
(***************************************************************************)

\* "Determine version": never fails, whatever the explicit version looks like
ResolveVersion ==
    /\ stage = "ResolvingVersion"
    /\ latest_tag' = get_latest_tag(tags, gitOk)
    /\ version' = resolve_version(args, latest_tag')
    /\ stage' = "RunningChecks"
    /\ UNCHANGED <<categories, toolVars>>
    /\ UNCHANGED <<cli, tags, tags0, gitOk, commitLog, lintResult, testResult,
                   buildResult, invoked, build, dist, notes, zip, printed, result>>

\* Step 1 with --skip-checks
SkipChecks ==
    /\ stage = "RunningChecks"
    /\ args.skip_checks
    /\ stage' = "Building"
    /\ UNCHANGED <<categories, toolVars>>
    /\ UNCHANGED <<cli, tags, tags0, gitOk, commitLog, latest_tag, version,
                   lintResult, testResult, buildResult, invoked, build, dist,
                   notes, zip, printed, result>>

\* Step 1: lint_all(fix=False); the two linters are external tools
Lint ==
    /\ stage = "RunningChecks"
    /\ ~args.skip_checks
    /\ lintResult = "none"
    /\ \E success1 \in BOOLEAN, success2 \in BOOLEAN :
         LET ok == lint_all(success1, success2)
         IN  /\ lintResult' = IF ok THEN "ok" ELSE "fail"
             /\ stage' = AfterLint(ok)
             /\ result' = ReturnOf(AfterLint(ok), result)
    /\ invoked' = Append(invoked, "lint")
    /\ UNCHANGED <<categories, toolVars>>
    /\ UNCHANGED <<cli, tags, tags0, gitOk, commitLog, latest_tag, version,
                   testResult, buildResult, build, dist, notes, zip, printed>>

\* Step 1: test_frontend(watch=False)
TestFrontend ==
    /\ stage = "RunningChecks"
    /\ ~args.skip_checks
    /\ lintResult # "none"
    /\ testResult = "none"
    /\ \E ok \in BOOLEAN :
         /\ testResult' = IF ok THEN "ok" ELSE "fail"
         /\ stage' = AfterTest(ok)
         /\ result' = ReturnOf(AfterTest(ok), result)
    /\ invoked' = Append(invoked, "test")
    /\ UNCHANGED <<categories, toolVars>>
    /\ UNCHANGED <<cli, tags, tags0, gitOk, commitLog, latest_tag, version,
                   lintResult, buildResult, build, dist, notes, zip, printed>>

\* Step 2: build_all("Release", clean=True).  The web build runs first; when
\* it fails the native build is not started.  The native build removes the
\* build directory, then configures and compiles; it reports success whether
\* or not the binary and the web output ended up in build/Release.
Build ==
    /\ stage = "Building"
    /\ \E frontend_ok \in BOOLEAN, backend_ok \in BOOLEAN, exe \in BOOLEAN,
          fe \in {{}} \cup FrontendTrees :
         LET ok == frontend_ok /\ backend_ok
         IN  /\ build' = IF ~frontend_ok THEN build
                         ELSE IF ~backend_ok THEN NoBuildOutput
                         ELSE [exe |-> exe, frontend_exists |-> fe # {},
                               frontend |-> fe]
             /\ bdir' \in IF ~frontend_ok THEN {bdir}
                          ELSE IF ~backend_ok
                          THEN {NoBuildDir, [NoBuildDir EXCEPT !.exists = TRUE]}
                          ELSE {ConfiguredDir(NoBuildDir, host.ninja)}
             /\ buildResult' = IF ok THEN "ok" ELSE "fail"
             /\ stage' = AfterBuild(ok)
             /\ result' = ReturnOf(AfterBuild(ok), result)
    /\ invoked' = Append(invoked, "build")
    /\ UNCHANGED <<categories, run, runs, host, frontend, logs>>
    /\ UNCHANGED <<cli, tags, tags0, gitOk, commitLog, latest_tag, version,
                   lintResult, testResult, dist, notes, zip, printed>>

\* Step 3 with the inputs checked first: a failed check leaves the bundle
\* directory as it was found
Package_CheckFirst ==
    /\ stage = "Packaging"
    /\ LET next == AfterInputCheck(build.exe, build.frontend_exists)
       IN  /\ stage' = next
           /\ result' = ReturnOf(next, result)
           /\ IF next = "Failed"
              THEN /\ dist' = dist
                   /\ invoked' = invoked
              ELSE /\ dist' = [exists |-> TRUE,
                               files |-> (IF build.exe THEN {ExeFile} ELSE {})
                                  \cup {<<"frontend", f>> : f \in build.frontend}]
                   /\ invoked' = Append(invoked, "copy")
    /\ UNCHANGED <<categories, toolVars>>
    /\ UNCHANGED <<cli, tags, tags0, gitOk, commitLog, latest_tag, version,
                   lintResult, testResult, buildResult, build, notes, zip,
                   printed>>

\* Step 3: the bundle directory is removed and recreated, then both inputs
\* are checked, then both are copied
Package ==
    /\ stage = "Packaging"
    /\ LET next == AfterInputCheck(build.exe, build.frontend_exists)
       IN  /\ stage' = next
           /\ result' = ReturnOf(next, result)
           /\ IF next = "Failed"
              THEN /\ dist' = EmptyDir
                   /\ invoked' = invoked
              ELSE /\ dist' = [exists |-> TRUE,
                               files |-> (IF build.exe THEN {ExeFile} ELSE {})
                                  \cup {<<"frontend", f>> : f \in build.frontend}]
                   /\ invoked' = Append(invoked, "copy")
    /\ UNCHANGED <<categories, toolVars>>
    /\ UNCHANGED <<cli, tags, tags0, gitOk, commitLog, latest_tag, version,
                   lintResult, testResult, buildResult, build, notes, zip,
                   printed>>

\* Step 4: the notes are generated and written
GenerateNotes ==
    /\ stage = "GeneratingNotes"
    /\ notes' = [exists |-> TRUE,
                 lines |-> generate_release_notes(version, latest_tag, tags,
                                                  commitLog)]
    /\ categories' =
         IF Truthy(latest_tag)
         THEN categorize_commits(get_commits_since_tag(latest_tag, tags, commitLog))
         ELSE categories
    /\ invoked' = Append(invoked, "notes")
    /\ stage' = "Archiving"
    /\ UNCHANGED toolVars
    /\ UNCHANGED <<cli, tags, tags0, gitOk, commitLog, latest_tag, version,
                   lintResult, testResult, buildResult, build, dist, zip,
                   printed, result>>

\* zip_name = f"Velocity-DB-v{version}.zip"
zip_name(ver) ==
    <<"V", "e", "l", "o", "c", "i", "t", "y", "-", "D", "B", "-", "v">>
       \o ver \o <<".", "z", "i", "p">>

\* Step 5: ZipFile(zip_path, "w") creates the archive, or truncates the one
\* an earlier run left under the same name; `name` is the name this run
\* gave it
ArchiveOpen ==
    /\ stage = "Archiving"
    /\ ~zip.byRun
    /\ zip' = [exists |-> TRUE, byRun |-> TRUE, open |-> TRUE, entries |-> {},
               name |-> zip_name(version)]
    /\ invoked' = Append(invoked, "archive")
    /\ UNCHANGED <<categories, toolVars>>
    /\ UNCHANGED <<cli, tags, tags0, gitOk, commitLog, stage, latest_tag,
                   version, lintResult, testResult, buildResult, build, dist,
                   notes, printed, result>>

\* dist_dir = project_root / "dist", as a path below the project root
dist_dir == <<"dist">>

\* dist_dir.rglob("*"): every directory and file below the bundle directory
rglob(d) ==
    UNION {{dist_dir \o SubSeq(f, 1, k) : k \in 1..Len(f)} : f \in d.files}

\* file.is_file()
is_file(path, d) == \E f \in d.files : path = dist_dir \o f

\* the entry is stored under the path as rglob gave it
relative_to_Full(path, dir) == path

\* file.relative_to(dist_dir)
relative_to(path, dir) == SubSeq(path, Len(dir) + 1, Len(path))

\* the names under which the loop stores the files rglob yields
Arcnames(d) ==
    {relative_to(file, dist_dir) : file \in {p \in rglob(d) : is_file(p, d)}}

\* Step 5: zf.write of one file of the bundle.  A write that raises (the disk
\* is full, the file cannot be read) leaves the with block: the archive is
\* closed with the entries written so far and the exception ends cmd_release.
ArchiveWrite ==
    /\ stage = "Archiving"
    /\ zip.open
    /\ \E file \in {p \in rglob(dist) : is_file(p, dist)}, written \in BOOLEAN :
         /\ relative_to(file, dist_dir) \notin zip.entries
         /\ IF written
            THEN /\ zip' = [zip EXCEPT
                              !.entries = @ \cup {relative_to(file, dist_dir)}]
                 /\ UNCHANGED <<stage, result>>
            ELSE /\ zip' = [zip EXCEPT !.open = FALSE]
                 /\ stage' = "Failed"
                 /\ result' = "raised"
    /\ UNCHANGED <<categories, toolVars>>
    /\ UNCHANGED <<cli, tags, tags0, gitOk, commitLog, latest_tag, version,
                   lintResult, testResult, buildResult, invoked, build, dist,
                   notes, printed>>

\* Step 5: the end of the with block after the last file
ArchiveClose ==
    /\ stage = "Archiving"
    /\ zip.open
    /\ zip.entries = Arcnames(dist)
    /\ zip' = [zip EXCEPT !.open = FALSE]
    /\ UNCHANGED <<categories, toolVars>>
    /\ UNCHANGED <<cli, tags, tags0, gitOk, commitLog, stage, latest_tag,
                   version, lintResult, testResult, buildResult, invoked, build,
                   dist, notes, printed, result>>

\* the final step with the tag command run instead of printed
PrintCommands_Exec ==
    /\ stage = "Archiving"
    /\ zip.byRun
    /\ ~zip.open
    /\ tags' = tags \cup {<<"v">> \o version}
    /\ printed' = [done |-> TRUE,
                   tag_version |-> version,
                   push_version |-> version,
                   release_version |-> version,
                   draft_flag |-> DraftFlag(args.draft)]
    /\ invoked' = Append(invoked, "print")
    /\ stage' = "Done"
    /\ result' = "True"
    /\ UNCHANGED <<categories, toolVars>>
    /\ UNCHANGED <<cli, tags0, gitOk, commitLog, latest_tag, version,
                   lintResult, testResult, buildResult, build, dist, notes, zip>>

\* the summary and the "RELEASE COMMANDS" block: printed, not run
PrintCommands ==
    /\ stage = "Archiving"
    /\ zip.byRun
    /\ ~zip.open
    /\ printed' = [done |-> TRUE,
                   tag_version |-> version,
                   push_version |-> version,
                   release_version |-> version,
                   draft_flag |-> DraftFlag(args.draft)]
    /\ invoked' = Append(invoked, "print")
    /\ stage' = "Done"
    /\ result' = "True"
    /\ UNCHANGED <<categories, toolVars>>
    /\ UNCHANGED <<cli, tags, tags0, gitOk, commitLog, latest_tag, version,
                   lintResult, testResult, buildResult, build, dist, notes, zip>>

Next ==
    \/ ResolveVersion
    \/ SkipChecks
    \/ Lint
    \/ TestFrontend
    \/ Build
    \/ Package
    \/ GenerateNotes
    \/ ArchiveOpen
    \/ ArchiveWrite
    \/ ArchiveClose
    \/ PrintCommands

\* what only the release steps change
releaseVars == <<cli, tags, tags0, gitOk, commitLog, stage, latest_tag, version,
                 lintResult, testResult, notes, zip, printed, categories>>

\* no command is in progress: the next one can be entered
Idle ==
    \/ run.pc = "end"
    \/ run.cmd = "release" /\ stage \in {"Done", "Failed"}

(***************************************************************************)
(* cmd_package, one action per step                                        *)
(***************************************************************************)

\* how many commands are run one after the other
MaxRuns == 2

\* `pdg.py package`
StartPackage ==
    /\ Idle
    /\ runs < MaxRuns
    /\ run' = Begin("package", "build")
    /\ runs' = runs + 1
    /\ result' = "running"
    /\ buildResult' = "none"
    /\ invoked' = <<>>
    /\ UNCHANGED <<releaseVars, build, dist, host, frontend, bdir, logs>>

\* `if not build.build_all(...): return False`, with the failure ignored
AfterPackageBuild_Ignore(ok) == "clean"

\* `if not build.build_all(...): return False`
AfterPackageBuild(ok) == IF ok THEN "clean" ELSE "end"

\* [1/2] build_all(build_type="Release", clean=False): the build directory is
\* not removed, so what a failed build leaves in build/Release is what was
\* there, and a build that succeeds without producing the web output leaves
\* the copy an earlier build made
PackageBuild ==
    /\ run.cmd = "package"
    /\ run.pc = "build"
    /\ \E frontend_ok \in BOOLEAN, backend_ok \in BOOLEAN, exe \in BOOLEAN,
          fe \in {{}, build.frontend} \cup FrontendTrees :
         LET ok == frontend_ok /\ backend_ok
         IN  /\ build' = IF ok
                         THEN [exe |-> exe, frontend_exists |-> fe # {},
                               frontend |-> fe]
                         ELSE build
             /\ bdir' = IF ok THEN ConfiguredDir(bdir, host.ninja) ELSE bdir
             /\ buildResult' = IF ok THEN "ok" ELSE "fail"
             /\ run' = [run EXCEPT !.target = "all", !.type = "Release",
                                   !.clean = FALSE, !.pc = AfterPackageBuild(ok)]
             /\ result' = IF AfterPackageBuild(ok) = "end" THEN "False" ELSE result
    /\ invoked' = Append(invoked, "build")
    /\ UNCHANGED <<releaseVars, runs, dist, host, frontend, logs>>

\* the bundle directory of the earlier invocation is kept and written into
PackageClean_Merge ==
    /\ run.cmd = "package"
    /\ run.pc = "clean"
    /\ dist' = [exists |-> TRUE, files |-> dist.files]
    /\ invoked' = Append(invoked, "mkdir")
    /\ run' = [run EXCEPT !.pc = "exe"]
    /\ UNCHANGED <<releaseVars, runs, result, buildResult, build, host, frontend,
                   bdir, logs>>

\* a lock on dist/ held from the removal to the last copy
Excluded_Lock(pc) == pc \in {"exe", "frontend"}

\* whether an invocation at pc keeps another one from removing dist/:
\* cmd_package takes no lock and looks for no other process
Excluded(pc) == FALSE

\* [2/2] `if dist_dir.exists(): shutil.rmtree(dist_dir)`, `dist_dir.mkdir()`
PackageClean ==
    /\ run.cmd = "package"
    /\ run.pc = "clean"
    /\ ~Excluded(run.other.pc)
    /\ dist' = EmptyDir
    /\ invoked' = invoked \o (IF dist.exists THEN <<"rmtree">> ELSE <<>>)
                          \o <<"mkdir">>
    /\ run' = [run EXCEPT !.pc = "exe"]
    /\ UNCHANGED <<releaseVars, runs, result, buildResult, build, host, frontend,
                   bdir, logs>>

\* "Copy executable": copied at once when it exists
PackageCopyExe ==
    /\ run.cmd = "package"
    /\ run.pc = "exe"
    /\ IF build.exe
       THEN /\ dist' = [dist EXCEPT !.files = @ \cup {ExeFile}]
            /\ invoked' = Append(invoked, "copy exe")
            /\ run' = [run EXCEPT !.pc = "frontend"]
            /\ result' = result
       ELSE /\ run' = [run EXCEPT !.pc = "end"]
            /\ result' = "False"
            /\ UNCHANGED <<dist, invoked>>
    /\ UNCHANGED <<releaseVars, runs, buildResult, build, host, frontend, bdir,
                   logs>>

\* dist/frontend holds files: shutil.copytree to it raises FileExistsError
HasFrontend(d) == \E e \in d.files : Len(e) = 2 /\ e[1] = "frontend"

\* "Copy frontend": looked for only after the executable was copied
PackageCopyFrontend ==
    /\ run.cmd = "package"
    /\ run.pc = "frontend"
    /\ IF build.frontend_exists /\ HasFrontend(dist)
       THEN /\ result' = "raised"
            /\ invoked' = Append(invoked, "copy frontend")
            /\ dist' = dist
       ELSE IF build.frontend_exists
       THEN /\ dist' = [dist EXCEPT !.files =
                            @ \cup {<<"frontend", f>> : f \in build.frontend}]
            /\ invoked' = Append(invoked, "copy frontend")
            /\ result' = "True"
       ELSE /\ result' = "False"
            /\ UNCHANGED <<dist, invoked>>
    /\ run' = [run EXCEPT !.pc = "end"]
    /\ UNCHANGED <<releaseVars, runs, buildResult, build, host, frontend, bdir,
                   logs>>

(***************************************************************************)
(* A second `pdg.py package` started while the first one runs              *)
(***************************************************************************)

\* the second process is started; its build_all leaves build/Release as the
\* first one's left it, or fails
OtherStart ==
    /\ run.cmd = "package"
    /\ run.pc # "end"
    /\ run.other.pc = "none"
    /\ run' = [run EXCEPT !.other = [pc |-> "build", result |-> "running"]]
    /\ UNCHANGED <<releaseVars, runs, result, buildResult, invoked, build, dist,
                   host, frontend, bdir, logs>>

\* [1/2] of the second process
OtherBuild ==
    /\ run.cmd = "package"
    /\ run.other.pc = "build"
    /\ \E ok \in BOOLEAN :
         run' = [run EXCEPT !.other =
                    [pc |-> AfterPackageBuild(ok),
                     result |-> IF AfterPackageBuild(ok) = "end" THEN "False"
                                ELSE "running"]]
    /\ UNCHANGED <<releaseVars, runs, result, buildResult, invoked, build, dist,
                   host, frontend, bdir, logs>>

\* [2/2] of the second process: rmtree and mkdir of dist/
OtherClean ==
    /\ run.cmd = "package"
    /\ run.other.pc = "clean"
    /\ ~Excluded(run.pc)
    /\ dist' = EmptyDir
    /\ run' = [run EXCEPT !.other.pc = "exe"]
    /\ UNCHANGED <<releaseVars, runs, result, buildResult, invoked, build, host,
                   frontend, bdir, logs>>

\* "Copy executable" of the second process
OtherCopyExe ==
    /\ run.cmd = "package"
    /\ run.other.pc = "exe"
    /\ IF build.exe
       THEN /\ dist' = [dist EXCEPT !.files = @ \cup {ExeFile}]
            /\ run' = [run EXCEPT !.other.pc = "frontend"]
       ELSE /\ run' = [run EXCEPT !.other = [pc |-> "end", result |-> "False"]]
            /\ dist' = dist
    /\ UNCHANGED <<releaseVars, runs, result, buildResult, invoked, build, host,
                   frontend, bdir, logs>>

\* "Copy frontend" of the second process
OtherCopyFrontend ==
    /\ run.cmd = "package"
    /\ run.other.pc = "frontend"
    /\ IF build.frontend_exists /\ HasFrontend(dist)
       THEN /\ run' = [run EXCEPT !.other = [pc |-> "end", result |-> "raised"]]
            /\ dist' = dist
       ELSE IF build.frontend_exists
       THEN /\ dist' = [dist EXCEPT !.files =
                            @ \cup {<<"frontend", f>> : f \in build.frontend}]
            /\ run' = [run EXCEPT !.other = [pc |-> "end", result |-> "True"]]
       ELSE /\ run' = [run EXCEPT !.other = [pc |-> "end", result |-> "False"]]
            /\ dist' = dist
    /\ UNCHANGED <<releaseVars, runs, result, buildResult, invoked, build, host,
                   frontend, bdir, logs>>

\* two invocations of package, their steps in any order
NextOverlap ==
    \/ StartPackage
    \/ PackageBuild
    \/ PackageClean
    \/ PackageCopyExe
    \/ PackageCopyFrontend
    \/ OtherStart
    \/ OtherBuild
    \/ OtherClean
    \/ OtherCopyExe
    \/ OtherCopyFrontend

(***************************************************************************)
(* scripts/package.py, the older packaging script, one action per step     *)
(***************************************************************************)

LegacyExeFile == <<"PreDateGrip.exe">>

\* `python scripts/package.py`
StartLegacyPackage ==
    /\ Idle
    /\ runs < MaxRuns
    /\ run' = Begin("package.py", "build")
    /\ runs' = runs + 1
    /\ result' = "running"
    /\ buildResult' = "none"
    /\ invoked' = <<>>
    /\ UNCHANGED <<releaseVars, build, dist, host, frontend, bdir, logs>>

\* get_msvc_env, then [1/3] the web build and [2/3] the native build, each
\* ending the script with sys.exit(1) when it fails.  The tools are external:
\* a web build that succeeds leaves any frontend/dist or none, a native build
\* that succeeds leaves PreDateGrip.exe somewhere under build/ or nowhere.
LegacyBuild ==
    /\ run.cmd = "package.py"
    /\ run.pc = "build"
    /\ \E failed \in {"env", "frontend", "backend", "no step"} :
         /\ buildResult' = IF failed = "no step" THEN "ok" ELSE "fail"
         /\ run' = [run EXCEPT !.pc = IF failed = "no step" THEN "clean" ELSE "end"]
         /\ result' = IF failed = "no step" THEN result ELSE "exit1"
         /\ IF failed \in {"backend", "no step"}
            THEN \E tree \in {{}} \cup FrontendTrees :
                   frontend' = [frontend EXCEPT
                       !.dist = [exists |-> tree # {}, files |-> tree],
                       !.node_modules = [exists |-> TRUE, mtime |-> @.mtime]]
            ELSE frontend' = frontend
         /\ IF failed = "no step"
            THEN \E found \in BOOLEAN :
                   bdir' = [ConfiguredDir(bdir, host.ninja) EXCEPT
                               !.predategrip = found, !.webview2 = bdir.webview2]
            ELSE bdir' = bdir
    /\ invoked' = Append(invoked, "build")
    /\ UNCHANGED <<releaseVars, runs, build, dist, host, logs>>

\* [3/3] rmtree of dist when it exists, mkdir of dist and of dist/frontend
LegacyClean ==
    /\ run.cmd = "package.py"
    /\ run.pc = "clean"
    /\ dist' = EmptyDir
    /\ invoked' = invoked \o (IF dist.exists THEN <<"rmtree">> ELSE <<>>)
                          \o <<"mkdir">>
    /\ run' = [run EXCEPT !.pc = "exe"]
    /\ UNCHANGED <<releaseVars, runs, result, buildResult, build, host, frontend,
                   bdir, logs>>

\* "Find executable" and "Copy executable": sys.exit(1) when there is none
LegacyCopyExe ==
    /\ run.cmd = "package.py"
    /\ run.pc = "exe"
    /\ IF bdir.predategrip
       THEN /\ dist' = [dist EXCEPT !.files = @ \cup {LegacyExeFile}]
            /\ invoked' = Append(invoked, "copy exe")
            /\ run' = [run EXCEPT !.pc = "frontend"]
            /\ result' = result
       ELSE /\ run' = [run EXCEPT !.pc = "end"]
            /\ result' = "exit1"
            /\ UNCHANGED <<dist, invoked>>
    /\ UNCHANGED <<releaseVars, runs, buildResult, build, host, frontend, bdir,
                   logs>>

\* "Copy frontend dist": a warning when frontend/dist does not exist, and
\* "Package created successfully!" either way
LegacyCopyFrontend ==
    /\ run.cmd = "package.py"
    /\ run.pc = "frontend"
    /\ IF frontend.dist.exists
       THEN /\ dist' = [dist EXCEPT !.files =
                            @ \cup {<<"frontend", f>> : f \in frontend.dist.files}]
            /\ invoked' = Append(invoked, "copy frontend")
       ELSE UNCHANGED <<dist, invoked>>
    /\ result' = "True"
    /\ run' = [run EXCEPT !.pc = "end"]
    /\ UNCHANGED <<releaseVars, runs, buildResult, build, host, frontend, bdir,
                   logs>>

\* `pdg.py release`, from the state the earlier commands left: the notes file
\* and the archive of an earlier release of the same version are still there
StartRelease ==
    /\ Idle
    /\ runs < MaxRuns
    /\ run' = Begin("release", "stage")
    /\ runs' = runs + 1
    /\ \E skip \in BOOLEAN : cli' = [cli EXCEPT !.skip_checks = skip]
    /\ tags0' = tags
    /\ stage' = "ResolvingVersion"
    /\ latest_tag' = None
    /\ version' = None
    /\ lintResult' = "none"
    /\ testResult' = "none"
    /\ buildResult' = "none"
    /\ invoked' = <<>>
    /\ zip' = [zip EXCEPT !.byRun = FALSE]
    /\ printed' = NothingPrinted
    /\ result' = "running"
    /\ categories' = NoCategories
    /\ UNCHANGED <<tags, gitOk, commitLog, build, dist, notes, host, frontend,
                   bdir, logs>>

\* package, package.py and release, one after the other in any order
NextBundle ==
    \/ StartPackage
    \/ PackageBuild
    \/ PackageClean
    \/ PackageCopyExe
    \/ PackageCopyFrontend
    \/ StartLegacyPackage
    \/ LegacyBuild
    \/ LegacyClean
    \/ LegacyCopyExe
    \/ LegacyCopyFrontend
    \/ StartRelease
    \/ Next

(***************************************************************************)
(* cmd_build: build_frontend, build_backend, build_all, one action per step *)
(***************************************************************************)

\* how many of build, test and clean are run one after the other
MaxCmds == 1

\* the largest modification time of a file
MaxTime == 2
Times == 0..MaxTime

\* `pdg.py build <target> [--clean] [--type <type>]`: cmd_build calls
\* build_backend, build_frontend or build_all
StartBuild ==
    /\ Idle
    /\ runs < MaxCmds
    /\ \E target \in {"backend", "frontend", "all"}, clean \in BOOLEAN,
          type \in BuildTypes :
         run' = [Begin("build", IF target = "backend" THEN "be_clean"
                                ELSE "fe_clean")
                    EXCEPT !.target = target, !.clean = clean, !.type = type]
    /\ runs' = runs + 1
    /\ result' = "running"
    /\ buildResult' = "none"
    /\ invoked' = <<>>
    /\ UNCHANGED <<releaseVars, build, dist, host, frontend, bdir, logs>>

\* the commands that go through build_frontend and build_backend step by
\* step: cmd_build, and cmd_release in its Building stage
Builders == {"build", "release"}

\* build_all goes on to build_backend although build_frontend failed
AfterFrontend_Ignore(ok, target) == IF target = "all" THEN "be_clean" ELSE "end"

\* where build_frontend returns to: cmd_build for the target frontend,
\* build_all (`if not build_frontend(clean=clean): return False`) for all
AfterFrontend(ok, target) ==
    IF ~ok THEN "end" ELSE IF target = "all" THEN "be_clean" ELSE "end"

\* what the command returns when it ends at pc, "running" otherwise
ResultAt(pc, ok) == IF pc # "end" THEN "running" ELSE IF ok THEN "True" ELSE "False"

\* "Clear caches if --clean": rmtree of frontend/dist and of the two vite
\* caches, those that exist; an rmtree that raises is reported and skipped
FrontendClean ==
    /\ run.cmd \in Builders
    /\ run.pc = "fe_clean"
    /\ IF run.clean
       THEN \E kept_dist \in BOOLEAN, kept \in SUBSET (frontend.caches \cap ViteCaches) :
              /\ kept_dist => frontend.dist.exists
              /\ frontend' = [frontend EXCEPT
                      !.dist = IF kept_dist THEN @ ELSE Absent,
                      !.caches = (@ \ ViteCaches) \cup kept]
              /\ invoked' = Append(invoked, "fe:clean")
              /\ run' = [run EXCEPT
                      !.pc = "fe_pm",
                      !.swallowed = IF kept_dist \/ kept # {}
                                    THEN @ \cup {"fe:clean"} ELSE @]
       ELSE /\ run' = [run EXCEPT !.pc = "fe_pm"]
            /\ UNCHANGED <<frontend, invoked>>
    /\ UNCHANGED <<releaseVars, runs, result, buildResult, build, dist, host,
                   bdir, logs>>

\* [1/3] find_package_manager(): None when neither bun nor npm answers
FrontendFindPackageManager ==
    /\ run.cmd \in Builders
    /\ run.pc = "fe_pm"
    /\ LET found == find_package_manager(host) # "none"
           next == IF found THEN "fe_deps" ELSE AfterFrontend(FALSE, run.target)
       IN  /\ run' = [run EXCEPT !.pc = next,
                                 !.fe = IF found THEN @ ELSE "fail"]
           /\ result' = ResultAt(next, FALSE)
    /\ UNCHANGED <<releaseVars, runs, buildResult, invoked, build, dist, host,
                   frontend, bdir, logs>>

\* needs_install with pkg_mtime >= nm_mtime
needs_install_NotOlder(fe) ==
    LET needs0 == ~fe.node_modules.exists
    IN  IF ~needs0 /\ fe.package_json.exists
        THEN (IF fe.package_json.mtime >= fe.node_modules.mtime THEN TRUE
              ELSE needs0)
        ELSE needs0

\* [2/3] needs_install, as build_frontend computes it
needs_install(fe) ==
    LET needs0 == ~fe.node_modules.exists
    IN  IF ~needs0 /\ fe.package_json.exists
        THEN (IF fe.package_json.mtime > fe.node_modules.mtime THEN TRUE
              ELSE needs0)
        ELSE needs0

\* check_node_modules of scripts/build_frontend.py: True when the installed
\* dependencies are up to date
check_node_modules(fe) ==
    IF ~fe.node_modules.exists THEN FALSE
    ELSE IF fe.package_json.exists
    THEN (IF fe.package_json.mtime > fe.node_modules.mtime THEN FALSE ELSE TRUE)
    ELSE TRUE

\* [2/3] "Checking dependencies...": the decision
FrontendCheckDependencies ==
    /\ run.cmd \in Builders
    /\ run.pc = "fe_deps"
    /\ run' = [run EXCEPT !.deps = IF needs_install(frontend) THEN "install"
                                   ELSE "skip",
                          !.pc = "fe_install"]
    /\ UNCHANGED <<releaseVars, runs, result, buildResult, invoked, build, dist,
                   host, frontend, bdir, logs>>

\* [2/3] `<pm> install` when needed.  An install that succeeds leaves
\* node_modules; whether it touches the directory when it was there is up to
\* the package manager.
FrontendInstall ==
    /\ run.cmd \in Builders
    /\ run.pc = "fe_install"
    /\ IF run.deps = "install"
       THEN \E success \in BOOLEAN, touched \in BOOLEAN :
              LET next == IF success THEN "fe_build"
                          ELSE AfterFrontend(FALSE, run.target)
              IN  /\ success => (touched \/ frontend.node_modules.exists)
                  /\ frontend' =
                        IF touched
                        THEN [frontend EXCEPT !.node_modules =
                                 [exists |-> TRUE, mtime |-> MaxTime]]
                        ELSE frontend
                  /\ invoked' = Append(invoked, "fe:install")
                  /\ run' = [run EXCEPT !.pc = next,
                                        !.fe = IF success THEN @ ELSE "fail"]
                  /\ result' = ResultAt(next, FALSE)
       ELSE /\ run' = [run EXCEPT !.pc = "fe_build"]
            /\ UNCHANGED <<frontend, invoked, result>>
    /\ UNCHANGED <<releaseVars, runs, buildResult, build, dist, host, bdir, logs>>

\* [3/3] `<pm> run build`, the report, clear_webview2_cache.  A build that
\* succeeds leaves in frontend/dist what the bundler wrote, which may or may
\* not empty the directory first; an rmtree of a
\* WebView2 cache that raises is reported and skipped.
FrontendBuild ==
    /\ run.cmd \in Builders
    /\ run.pc = "fe_build"
    /\ \E success \in BOOLEAN :
         LET next == AfterFrontend(success, run.target)
         IN  /\ IF success
                THEN /\ \E tree \in {frontend.dist.files} \cup FrontendTrees
                                     \cup {t \cup frontend.dist.files :
                                               t \in FrontendTrees} :
                          frontend' = [frontend EXCEPT
                              !.dist = [exists |-> tree # {}, files |-> tree]]
                     /\ bdir' \in {bdir, [bdir EXCEPT !.webview2 = {}]}
                ELSE UNCHANGED <<frontend, bdir>>
             /\ run' = [run EXCEPT
                     !.pc = next,
                     !.fe = IF success THEN "ok" ELSE "fail",
                     !.swallowed = IF success /\ bdir'.webview2 # {}
                                   THEN @ \cup {"webview2"} ELSE @]
             /\ result' = ResultAt(next, success)
    /\ invoked' = Append(invoked, "fe:build")
    /\ UNCHANGED <<releaseVars, runs, buildResult, build, dist, host, logs>>

\* build_backend entered: the build type is checked, then "Clean build
\* directory if requested"
BackendClean ==
    /\ run.cmd \in Builders
    /\ run.pc = "be_clean"
    /\ IF run.type \notin BuildTypes
       THEN /\ run' = [run EXCEPT !.pc = "end"]
            /\ result' = "False"
            /\ invoked' = Append(invoked, "be:start")
            /\ UNCHANGED <<bdir, build>>
       ELSE /\ run' = [run EXCEPT !.pc = "be_env"]
            /\ result' = result
            /\ IF run.clean /\ bdir.exists
               THEN /\ bdir' = NoBuildDir
                    /\ build' = NoBuildOutput
                    /\ invoked' = invoked \o <<"be:start", "be:clean">>
               ELSE /\ invoked' = Append(invoked, "be:start")
                    /\ UNCHANGED <<bdir, build>>
    /\ UNCHANGED <<releaseVars, runs, buildResult, dist, host, frontend, logs>>

\* [1/4] get_msvc_env(): sys.exit(1) when no vcvars64.bat is found or when it
\* exits with a non-zero code.  [2/4] check_build_tools(env): False when
\* `cmake --version` fails.
BackendEnv ==
    /\ run.cmd \in Builders
    /\ run.pc = "be_env"
    /\ LET msvc == get_msvc_env(host)
       IN  \E cmake_ok \in BOOLEAN :
             /\ cmake_ok => msvc.outcome = "env"
             /\ run' = [run EXCEPT !.msvc = msvc,
                                   !.pc = IF cmake_ok THEN "be_configure"
                                          ELSE "end"]
             /\ result' = IF msvc.outcome = "exit1" THEN "exit1"
                           ELSE IF ~cmake_ok THEN "False" ELSE result
    /\ invoked' = Append(invoked, "be:env")
    /\ UNCHANGED <<releaseVars, runs, buildResult, build, dist, host, frontend,
                   bdir, logs>>

\* the generator build_backend passes to cmake
Generator(has_ninja) == IF has_ninja THEN Ninja ELSE VisualStudio

\* build_dir.mkdir(exist_ok=True), then [3/4] `cmake -B build -G <generator>`
\* in whatever the build directory holds.  cmake refuses a build directory
\* whose cache records another generator; when it succeeds the cache records
\* the generator it was given.
BackendConfigure ==
    /\ run.cmd \in Builders
    /\ run.pc = "be_configure"
    /\ LET generator == Generator(host.ninja)
       IN  \E success \in BOOLEAN :
             /\ success => bdir.cache \in {NoCache, generator}
             /\ run' = [run EXCEPT
                          !.configure = [called |-> TRUE,
                                         generator |-> generator,
                                         cached |-> bdir.cache],
                          !.pc = IF success THEN "be_compile" ELSE "end"]
             /\ bdir' = IF success
                        THEN [bdir EXCEPT !.exists = TRUE, !.cache = generator,
                                          !.cmake_files = TRUE]
                        ELSE [bdir EXCEPT !.exists = TRUE]
             /\ result' = IF success THEN result ELSE "False"
    /\ invoked' = Append(invoked, "be:configure")
    /\ UNCHANGED <<releaseVars, runs, buildResult, build, dist, host, frontend,
                   logs>>

\* [4/4] `cmake --build build --config <type> --parallel`.  Which binaries a
\* build that succeeds leaves is up to the project files; build/Debug is not
\* followed.
BackendCompile ==
    /\ run.cmd \in Builders
    /\ run.pc = "be_compile"
    /\ \E success \in BOOLEAN, exe \in BOOLEAN, predategrip \in BOOLEAN :
         /\ ~(success /\ run.type = "Release") => (exe = build.exe
                                                   /\ predategrip = bdir.predategrip)
         /\ build' = [build EXCEPT !.exe = exe]
         /\ bdir' = [bdir EXCEPT !.predategrip = predategrip]
         /\ run' = [run EXCEPT !.pc = IF success THEN "be_post" ELSE "end"]
         /\ result' = IF success THEN result ELSE "False"
    /\ invoked' = Append(invoked, "be:compile")
    /\ UNCHANGED <<releaseVars, runs, buildResult, dist, host, frontend, logs>>

\* the exceptions build_backend caught after the compile step: of the copy,
\* of the rmtree of a WebView2 cache
PostSwallowed(outcome, webview2) ==
    (IF outcome \in {"rmtree raised", "copytree raised"} THEN {"be:copy"}
     ELSE {})
       \cup (IF webview2 # {} THEN {"webview2"} ELSE {})

\* "Find executable", [Post-Build] the copy of frontend/dist into
\* build/<type>/frontend with its exceptions caught, clear_webview2_cache,
\* `return True`
BackendPost ==
    /\ run.cmd \in Builders
    /\ run.pc = "be_post"
    /\ \E outcome \in {"skip", "copied", "rmtree raised", "copytree raised"} :
         /\ outcome = "skip" <=> ~(frontend.dist.exists /\ run.type = "Release")
         /\ outcome = "rmtree raised" => build.frontend_exists
         /\ build' = IF outcome = "copied"
                      THEN [build EXCEPT !.frontend_exists = TRUE,
                                         !.frontend = frontend.dist.files]
                      ELSE IF outcome = "copytree raised"
                      THEN [build EXCEPT !.frontend_exists = TRUE,
                                         !.frontend = {}]
                      ELSE build
         /\ bdir' \in {bdir, [bdir EXCEPT !.webview2 = {}]}
         /\ run' = [run EXCEPT
                      !.pc = "end",
                      !.swallowed = @ \cup PostSwallowed(outcome, bdir'.webview2)]
    /\ invoked' = Append(invoked, "be:post")
    /\ result' = "True"
    /\ UNCHANGED <<releaseVars, runs, buildResult, dist, host, frontend, logs>>

(***************************************************************************)
(* cmd_test: test_backend and test_frontend                                *)
(***************************************************************************)

\* `pdg.py test <target> [--type <type>]`
StartTest ==
    /\ Idle
    /\ runs < MaxCmds
    /\ \E target \in {"backend", "frontend"}, type \in BuildTypes :
         run' = [Begin("test", IF target = "backend" THEN "tb_check"
                               ELSE "tf_run")
                    EXCEPT !.target = target, !.type = type]
    /\ runs' = runs + 1
    /\ result' = "running"
    /\ buildResult' = "none"
    /\ invoked' = <<>>
    /\ UNCHANGED <<releaseVars, build, dist, host, frontend, bdir, logs>>

\* test_backend goes on without a build directory
AfterBuildDirCheck_Ignore(exists) == "tb_env"

\* `if not build_dir.exists(): ... return False`
AfterBuildDirCheck(exists) == IF exists THEN "tb_env" ELSE "end"

\* test_backend: the build type, then the build directory
TestBackendCheck ==
    /\ run.cmd = "test"
    /\ run.pc = "tb_check"
    /\ LET next == IF run.type \notin BuildTypes THEN "end"
                   ELSE AfterBuildDirCheck(bdir.exists)
       IN  /\ run' = [run EXCEPT !.pc = next]
           /\ result' = ResultAt(next, FALSE)
    /\ UNCHANGED <<releaseVars, runs, buildResult, invoked, build, dist, host,
                   frontend, bdir, logs>>

\* utils.get_msvc_env(): sys.exit(1) when it fails
TestBackendEnv ==
    /\ run.cmd = "test"
    /\ run.pc = "tb_env"
    /\ LET msvc == get_msvc_env(host)
       IN  /\ run' = [run EXCEPT !.msvc = msvc,
                                 !.pc = IF msvc.outcome = "env" THEN "tb_ctest"
                                        ELSE "end"]
           /\ result' = IF msvc.outcome = "env" THEN result ELSE "exit1"
    /\ invoked' = Append(invoked, "env")
    /\ UNCHANGED <<releaseVars, runs, buildResult, build, dist, host, frontend,
                   bdir, logs>>

\* `ctest --test-dir build ...`
TestBackendCtest ==
    /\ run.cmd = "test"
    /\ run.pc = "tb_ctest"
    /\ \E success \in BOOLEAN : result' = ResultAt("end", success)
    /\ run' = [run EXCEPT !.pc = "end"]
    /\ invoked' = Append(invoked, "ctest")
    /\ UNCHANGED <<releaseVars, runs, buildResult, build, dist, host, frontend,
                   bdir, logs>>

\* test_frontend(watch): `<pm> run test` when a package manager is found
TestFrontendRun ==
    /\ run.cmd = "test"
    /\ run.pc = "tf_run"
    /\ IF find_package_manager(host) = "none"
       THEN /\ result' = "False"
            /\ invoked' = invoked
       ELSE /\ \E success \in BOOLEAN : result' = ResultAt("end", success)
            /\ invoked' = Append(invoked, "run test")
    /\ run' = [run EXCEPT !.pc = "end"]
    /\ UNCHANGED <<releaseVars, runs, buildResult, build, dist, host, frontend,
                   bdir, logs>>

(***************************************************************************)
(* cmd_clean                                                               *)
(***************************************************************************)

\* `pdg.py clean <target>`
StartClean ==
    /\ Idle
    /\ runs < MaxCmds
    /\ \E target \in {"logs", "cache", "all"} :
         run' = [Begin("clean", "cl_logs") EXCEPT !.target = target]
    /\ runs' = runs + 1
    /\ result' = "running"
    /\ buildResult' = "none"
    /\ invoked' = <<>>
    /\ UNCHANGED <<releaseVars, build, dist, host, frontend, bdir, logs>>

\* every part is cleaned whatever the target
InScope_Always(target, scope) == TRUE

\* `if target in (<scope>, "all")`
InScope(target, scope) == target \in {scope, "all"}

LogSuffix == <<".", "l", "o", "g">>

\* log_dir.glob("*.log")
IsLogFile(name) ==
    /\ Len(name) >= Len(LogSuffix)
    /\ Drop(name, Len(name) - Len(LogSuffix)) = LogSuffix

\* the log files are unlinked one by one; an unlink that raises ends the
\* command with the files unlinked before it gone
CleanLogs ==
    /\ run.cmd = "clean"
    /\ run.pc = "cl_logs"
    /\ IF InScope(run.target, "logs") /\ logs.exists
       THEN \E unlinked \in SUBSET {f \in logs.files : IsLogFile(f)} :
              LET all == unlinked = {f \in logs.files : IsLogFile(f)}
              IN  /\ logs' = [logs EXCEPT !.files = @ \ unlinked]
                  /\ run' = [run EXCEPT !.pc = IF all THEN "cl_cache" ELSE "end"]
                  /\ result' = IF all THEN result ELSE "raised"
                  /\ invoked' = IF unlinked = {} THEN invoked
                                ELSE Append(invoked, "unlink")
       ELSE /\ run' = [run EXCEPT !.pc = "cl_cache"]
            /\ UNCHANGED <<logs, result, invoked>>
    /\ UNCHANGED <<releaseVars, runs, buildResult, build, dist, host, frontend,
                   bdir>>

\* rmtree of build/Release/VelocityDB.exe.WebView2 and of
\* frontend/node_modules/.cache, each when it exists; an rmtree that raises
\* ends the command; `return True`
CleanCache ==
    /\ run.cmd = "clean"
    /\ run.pc = "cl_cache"
    /\ IF InScope(run.target, "cache")
       THEN \E raised \in {"nowhere", "WebView2", ".cache"} :
              /\ raised = "WebView2" => "Release" \in bdir.webview2
              /\ raised = ".cache" => FrontendCache \in frontend.caches
              /\ bdir' = IF raised = "WebView2" THEN bdir
                         ELSE [bdir EXCEPT !.webview2 = @ \ {"Release"}]
              /\ frontend' = IF raised = "nowhere"
                             THEN [frontend EXCEPT !.caches = @ \ {FrontendCache}]
                             ELSE frontend
              /\ result' = IF raised = "nowhere" THEN "True" ELSE "raised"
              /\ invoked' = IF bdir' = bdir /\ frontend' = frontend THEN invoked
                            ELSE Append(invoked, "rmtree")
       ELSE /\ result' = "True"
            /\ UNCHANGED <<bdir, frontend, invoked>>
    /\ run' = [run EXCEPT !.pc = "end"]
    /\ UNCHANGED <<releaseVars, runs, buildResult, build, dist, host, logs>>

\* build, test and clean, one after the other in any order
NextTools ==
    \/ StartBuild
    \/ FrontendClean
    \/ FrontendFindPackageManager
    \/ FrontendCheckDependencies
    \/ FrontendInstall
    \/ FrontendBuild
    \/ BackendClean
    \/ BackendEnv
    \/ BackendConfigure
    \/ BackendCompile
    \/ BackendPost
    \/ StartTest
    \/ TestBackendCheck
    \/ TestBackendEnv
    \/ TestBackendCtest
    \/ TestFrontendRun
    \/ StartClean
    \/ CleanLogs
    \/ CleanCache

(***************************************************************************)
(* cmd_lint, cmd_check and cmd_dev                                         *)
(***************************************************************************)

\* "ok" or "fail"
Outcome(success) == IF success THEN "ok" ELSE "fail"

\* `pdg.py lint`: cmd_lint calls lint_all
StartLint ==
    /\ Idle
    /\ runs < MaxCmds
    /\ run' = Begin("lint", "lf_pm")
    /\ runs' = runs + 1
    /\ result' = "running"
    /\ buildResult' = "none"
    /\ invoked' = <<>>
    /\ UNCHANGED <<releaseVars, build, dist, host, frontend, bdir, logs>>

\* `pdg.py check [<type>]`: cmd_check, [1/3] lint.lint_all(fix=False)
StartCheck ==
    /\ Idle
    /\ runs < MaxCmds
    /\ \E type \in BuildTypes :
         run' = [Begin("check", "lf_pm") EXCEPT !.type = type]
    /\ runs' = runs + 1
    /\ result' = "running"
    /\ buildResult' = "none"
    /\ invoked' = <<>>
    /\ UNCHANGED <<releaseVars, build, dist, host, frontend, bdir, logs>>

\* `pdg.py dev`
StartDev ==
    /\ Idle
    /\ runs < MaxCmds
    /\ run' = Begin("dev", "dev_pm")
    /\ runs' = runs + 1
    /\ result' = "running"
    /\ buildResult' = "none"
    /\ invoked' = <<>>
    /\ UNCHANGED <<releaseVars, build, dist, host, frontend, bdir, logs>>

\* lint_frontend: find_package_manager(), `return False` without one
LintFrontendFind ==
    /\ run.cmd \in {"lint", "check"}
    /\ run.pc = "lf_pm"
    /\ IF find_package_manager(host) = "none"
       THEN run' = [run EXCEPT !.checks.lint = "fail", !.pc = "lc"]
       ELSE run' = [run EXCEPT !.pc = "lf_lint"]
    /\ UNCHANGED <<releaseVars, runs, result, buildResult, invoked, build, dist,
                   host, frontend, bdir, logs>>

\* lint_frontend: `<pm> run lint`
LintFrontendLint ==
    /\ run.cmd \in {"lint", "check"}
    /\ run.pc = "lf_lint"
    /\ \E success \in BOOLEAN :
         run' = [run EXCEPT !.checks.lint = Outcome(success),
                            !.pc = "lf_typecheck"]
    /\ invoked' = Append(invoked, "run lint")
    /\ UNCHANGED <<releaseVars, runs, result, buildResult, build, dist, host,
                   frontend, bdir, logs>>

\* lint_frontend: `<pm> run typecheck`, `success and success2`
LintFrontendTypecheck ==
    /\ run.cmd \in {"lint", "check"}
    /\ run.pc = "lf_typecheck"
    /\ \E success2 \in BOOLEAN :
         run' = [run EXCEPT !.checks.typecheck = Outcome(success2), !.pc = "lc"]
    /\ invoked' = Append(invoked, "run typecheck")
    /\ UNCHANGED <<releaseVars, runs, result, buildResult, build, dist, host,
                   frontend, bdir, logs>>

\* what lint_all returns: `success1 and success2`
lint_all_result(checks) ==
    /\ checks.lint = "ok"
    /\ checks.typecheck = "ok"
    /\ checks.cpp = "ok"

\* lint_cpp: False without clang-format or without C++ files, else
\* clang-format on every file and False when one of them needs formatting;
\* then lint_all returns, to cmd_lint or to cmd_check
LintCpp ==
    /\ run.cmd \in {"lint", "check"}
    /\ run.pc = "lc"
    /\ \E outcome \in {"no clang-format", "no files", "errors", "formatted"} :
         LET checks == [run.checks EXCEPT !.cpp = Outcome(outcome = "formatted")]
             next == IF run.cmd = "lint" THEN "end" ELSE "ck_test"
         IN  /\ run' = [run EXCEPT !.checks = checks, !.pc = next]
             /\ result' = ResultAt(next, lint_all_result(checks))
             /\ invoked' = IF outcome \in {"errors", "formatted"}
                           THEN Append(invoked, "clang-format")
                           ELSE invoked
    /\ UNCHANGED <<releaseVars, runs, buildResult, build, dist, host, frontend,
                   bdir, logs>>

\* cmd_check [2/3]: test.test_frontend(watch=False)
CheckTest ==
    /\ run.cmd = "check"
    /\ run.pc = "ck_test"
    /\ IF find_package_manager(host) = "none"
       THEN /\ run' = [run EXCEPT !.checks.test = "fail", !.pc = "ck_build"]
            /\ invoked' = invoked
       ELSE /\ \E success \in BOOLEAN :
                 run' = [run EXCEPT !.checks.test = Outcome(success),
                                    !.pc = "ck_build"]
            /\ invoked' = Append(invoked, "run test")
    /\ UNCHANGED <<releaseVars, runs, result, buildResult, build, dist, host,
                   frontend, bdir, logs>>

\* what cmd_check returns: `errors == 0`
check_result(checks) ==
    /\ lint_all_result(checks)
    /\ checks.test = "ok"
    /\ checks.build = "ok"

\* cmd_check [3/3]: build.build_all(build_type=build_type, clean=False),
\* which fails without a package manager; `return errors == 0`
CheckBuild ==
    /\ run.cmd = "check"
    /\ run.pc = "ck_build"
    /\ \E ok \in BOOLEAN, exe \in BOOLEAN,
          fe \in {{}, build.frontend} \cup FrontendTrees :
         LET checks == [run.checks EXCEPT !.build = Outcome(ok)]
         IN  /\ ok => find_package_manager(host) # "none"
             /\ build' = IF ok /\ run.type = "Release"
                         THEN [exe |-> exe, frontend_exists |-> fe # {},
                               frontend |-> fe]
                         ELSE build
             /\ bdir' = IF ok THEN ConfiguredDir(bdir, host.ninja) ELSE bdir
             /\ buildResult' = Outcome(ok)
             /\ run' = [run EXCEPT !.checks = checks, !.pc = "end"]
             /\ result' = ResultAt("end", check_result(checks))
    /\ invoked' = Append(invoked, "build")
    /\ UNCHANGED <<releaseVars, runs, dist, host, frontend, logs>>

\* cmd_dev: `return False` without a package manager, else `<pm> run dev`
DevRun ==
    /\ run.cmd = "dev"
    /\ run.pc = "dev_pm"
    /\ IF find_package_manager(host) = "none"
       THEN /\ result' = "False"
            /\ invoked' = invoked
       ELSE /\ \E success \in BOOLEAN : result' = ResultAt("end", success)
            /\ invoked' = Append(invoked, "run dev")
    /\ run' = [run EXCEPT !.pc = "end"]
    /\ UNCHANGED <<releaseVars, runs, buildResult, build, dist, host, frontend,
                   bdir, logs>>

(***************************************************************************)
(* cmd_release with its build_all followed step by step                    *)
(***************************************************************************)

\* Step 2: `build.build_all(build_type="Release", clean=True)` is entered
ReleaseBuildCall ==
    /\ run.cmd = "release"
    /\ stage = "Building"
    /\ run.pc = "stage"
    /\ run' = [run EXCEPT !.pc = "fe_clean", !.target = "all",
                          !.type = "Release", !.clean = TRUE]
    /\ invoked' = Append(invoked, "build")
    /\ UNCHANGED <<cli, tags, tags0, gitOk, commitLog, stage, latest_tag,
                   version, lintResult, testResult, buildResult, build, dist,
                   notes, zip, printed, result, categories, runs, host,
                   frontend, bdir, logs>>

\* Step 2: `if not build.build_all(...): return False`; the sys.exit(1) of
\* get_msvc_env ends the process
ReleaseBuildReturn ==
    /\ run.cmd = "release"
    /\ stage = "Building"
    /\ run.pc = "end"
    /\ LET ok == result = "True"
       IN  /\ buildResult' = Outcome(ok)
           /\ stage' = AfterBuild(ok)
           /\ result' = IF result = "exit1" THEN "exit1"
                         ELSE ReturnOf(AfterBuild(ok), "running")
    /\ run' = [run EXCEPT !.pc = "stage"]
    /\ UNCHANGED <<cli, tags, tags0, gitOk, commitLog, latest_tag, version,
                   lintResult, testResult, invoked, build, dist, notes, zip,
                   printed, categories, runs, host, frontend, bdir, logs>>

\* a release, its build step by step
NextRebuild ==
    \/ ResolveVersion
    \/ SkipChecks
    \/ Lint
    \/ TestFrontend
    \/ ReleaseBuildCall
    \/ FrontendClean
    \/ FrontendFindPackageManager
    \/ FrontendCheckDependencies
    \/ FrontendInstall
    \/ FrontendBuild
    \/ BackendClean
    \/ BackendEnv
    \/ BackendConfigure
    \/ BackendCompile
    \/ BackendPost
    \/ ReleaseBuildReturn
    \/ Package
    \/ GenerateNotes
    \/ ArchiveOpen
    \/ ArchiveWrite
    \/ ArchiveClose
    \/ PrintCommands

(***************************************************************************)
(* scripts/build.py and scripts/cpp_check.py                               *)
(***************************************************************************)

\* `python scripts/build.py [<type>] [--clean]`
StartLegacyBuild ==
    /\ Idle
    /\ runs < MaxRuns
    /\ \E type \in BuildTypes, clean_build \in BOOLEAN :
         run' = [Begin("build.py", "lb_clean") EXCEPT !.target = "backend",
                                                      !.type = type,
                                                      !.clean = clean_build]
    /\ runs' = runs + 1
    /\ result' = "running"
    /\ buildResult' = "none"
    /\ invoked' = <<>>
    /\ UNCHANGED <<releaseVars, build, dist, host, frontend, bdir, logs>>

\* `python scripts/cpp_check.py <action> [<type>]` for the actions that
\* build: build and all
StartCppCheck ==
    /\ Idle
    /\ runs < MaxRuns
    /\ \E action \in {"build", "all"}, type \in BuildTypes :
         run' = [Begin("cpp_check.py", "cc_env") EXCEPT !.target = action,
                                                        !.type = type]
    /\ runs' = runs + 1
    /\ result' = "running"
    /\ buildResult' = "none"
    /\ invoked' = <<>>
    /\ UNCHANGED <<releaseVars, build, dist, host, frontend, bdir, logs>>

\* build.py [0/4]: the build directory is removed whenever it exists;
\* clean_build is printed in the banner and not read again
LegacyBuildClean ==
    /\ run.cmd = "build.py"
    /\ run.pc = "lb_clean"
    /\ IF bdir.exists
       THEN /\ bdir' = NoBuildDir
            /\ build' = NoBuildOutput
            /\ invoked' = Append(invoked, "clean")
       ELSE UNCHANGED <<bdir, build, invoked>>
    /\ run' = [run EXCEPT !.pc = "lb_env"]
    /\ UNCHANGED <<releaseVars, runs, result, buildResult, dist, host, frontend,
                   logs>>

\* build.py [1/4] get_msvc_env(), [2/4] `if not check_tools(env): sys.exit(1)`
LegacyBuildEnv ==
    /\ run.cmd = "build.py"
    /\ run.pc = "lb_env"
    /\ LET msvc == build_get_msvc_env(host)
       IN  \E cmake_ok \in BOOLEAN :
             /\ cmake_ok => msvc.outcome = "env"
             /\ run' = [run EXCEPT !.msvc = msvc,
                                   !.pc = IF cmake_ok THEN "lg_reconcile"
                                          ELSE "end"]
             /\ result' = IF cmake_ok THEN result ELSE "exit1"
    /\ invoked' = Append(invoked, "env")
    /\ UNCHANGED <<releaseVars, runs, buildResult, build, dist, host, frontend,
                   bdir, logs>>

\* cpp_check.py main: `env = get_msvc_env()`, which always returns
CppCheckEnv ==
    /\ run.cmd = "cpp_check.py"
    /\ run.pc = "cc_env"
    /\ run' = [run EXCEPT !.msvc = cpp_check_get_msvc_env(host),
                          !.pc = IF run.target = "all" THEN "cc_lint"
                                 ELSE "lg_reconcile"]
    /\ invoked' = Append(invoked, "env")
    /\ UNCHANGED <<releaseVars, runs, result, buildResult, build, dist, host,
                   frontend, bdir, logs>>

\* cpp_check.py main: run_format and run_lint, each counted in error_count
\* when it fails
CppCheckFormatLint ==
    /\ run.cmd = "cpp_check.py"
    /\ run.pc = "cc_lint"
    /\ \E format_ok \in BOOLEAN, lint_ok \in BOOLEAN :
         run' = [run EXCEPT !.checks.cpp = Outcome(format_ok /\ lint_ok),
                            !.pc = "lg_reconcile"]
    /\ invoked' = invoked \o <<"format", "lint">>
    /\ UNCHANGED <<releaseVars, runs, result, buildResult, build, dist, host,
                   frontend, bdir, logs>>

\* get_cached_generator(build_dir): the value of the line CMAKE_GENERATOR: of
\* CMakeCache.txt, None without the file or without the line
get_cached_generator(d) ==
    IF d.cache \in {NoCache, NoEntry} THEN NoGenerator ELSE d.cache

\* only CMakeCache.txt is removed
clear_build_cache_CacheOnly(d) == [d EXCEPT !.cache = NoCache]

\* clear_build_cache(build_dir): CMakeCache.txt and CMakeFiles are removed,
\* each when it exists
clear_build_cache(d) == [d EXCEPT !.cache = NoCache, !.cmake_files = FALSE]

\* the cache is cleared whatever it records
reconcile_generator_Always(d, generator) == clear_build_cache(d)

\* "Check for generator mismatch": `if cached_generator and cached_generator
\* != generator: clear_build_cache(build_dir)`
reconcile_generator(d, generator) ==
    IF get_cached_generator(d) # NoGenerator
       /\ get_cached_generator(d) # generator
    THEN clear_build_cache(d)
    ELSE d

\* what of CMakeCache.txt and CMakeFiles is in d and no longer in e
Deleted(d, e) ==
    (IF d.cache # NoCache /\ e.cache = NoCache THEN {"CMakeCache.txt"} ELSE {})
       \cup (IF d.cmake_files /\ ~e.cmake_files THEN {"CMakeFiles"} ELSE {})

\* the generator recorded in d is another one than `generator`
Mismatch(d, generator) ==
    get_cached_generator(d) \notin {NoGenerator, generator}

\* how a reconciliation over d can end: it returns, or `cache_file.unlink()`
\* or `shutil.rmtree(cmake_files)` raises OSError, which nothing catches
ReconcileOutcomes(d, generator) ==
    {"returned"}
       \cup (IF Mismatch(d, generator) THEN {"unlink raised"} ELSE {})
       \cup (IF Mismatch(d, generator) /\ d.cmake_files
             THEN {"rmtree raised"} ELSE {})

\* build_dir.mkdir(exist_ok=True), the generator, the reconciliation
LegacyReconcile ==
    /\ run.cmd \in {"build.py", "cpp_check.py"}
    /\ run.pc = "lg_reconcile"
    /\ LET generator == Generator(host.ninja)
           d == [bdir EXCEPT !.exists = TRUE]
       IN  \E outcome \in ReconcileOutcomes(d, generator) :
             /\ bdir' = CASE outcome = "returned" ->
                                reconcile_generator(d, generator)
                          [] outcome = "unlink raised" -> d
                          [] outcome = "rmtree raised" ->
                                [d EXCEPT !.cache = NoCache]
             /\ run' = [run EXCEPT
                          !.reconcile = [called |-> TRUE,
                                         cached |-> get_cached_generator(d),
                                         generator |-> generator,
                                         deleted |-> Deleted(d, bdir')],
                          !.pc = IF outcome = "returned" THEN "lg_configure"
                                 ELSE "end"]
             /\ result' = IF outcome = "returned" THEN result ELSE "raised"
    /\ invoked' = Append(invoked, "reconcile")
    /\ UNCHANGED <<releaseVars, runs, buildResult, build, dist, host, frontend,
                   logs>>

\* `cmake -B build -G <generator>` under the environment get_msvc_env
\* returned; cmake refuses a build directory whose cache records another
\* generator
LegacyConfigure ==
    /\ run.cmd \in {"build.py", "cpp_check.py"}
    /\ run.pc = "lg_configure"
    /\ LET generator == Generator(host.ninja)
       IN  \E success \in BOOLEAN :
             /\ success => get_cached_generator(bdir) \in {NoGenerator, generator}
             /\ run' = [run EXCEPT
                          !.configure = [called |-> TRUE,
                                         generator |-> generator,
                                         cached |-> bdir.cache],
                          !.pc = IF success THEN "lg_compile" ELSE "end"]
             /\ bdir' = IF success
                        THEN [bdir EXCEPT !.cache = generator,
                                          !.cmake_files = TRUE]
                        ELSE bdir
             /\ result' = IF success THEN result ELSE "exit1"
    /\ invoked' = Append(invoked, "configure")
    /\ UNCHANGED <<releaseVars, runs, buildResult, build, dist, host, frontend,
                   logs>>

\* `cmake --build build --config <type> --parallel`, the report; cpp_check.py
\* exits with 1 when error_count is not 0
LegacyCompile ==
    /\ run.cmd \in {"build.py", "cpp_check.py"}
    /\ run.pc = "lg_compile"
    /\ \E success \in BOOLEAN, predategrip \in BOOLEAN :
         /\ ~success => predategrip = bdir.predategrip
         /\ bdir' = [bdir EXCEPT !.predategrip = predategrip]
         /\ result' = IF success /\ run.checks.cpp # "fail" THEN "True"
                       ELSE "exit1"
    /\ run' = [run EXCEPT !.pc = "end"]
    /\ invoked' = Append(invoked, "compile")
    /\ UNCHANGED <<releaseVars, runs, buildResult, build, dist, host, frontend,
                   logs>>

\* build.py and cpp_check.py, one after the other in any order
NextLegacy ==
    \/ StartLegacyBuild
    \/ StartCppCheck
    \/ LegacyBuildClean
    \/ LegacyBuildEnv
    \/ CppCheckEnv
    \/ CppCheckFormatLint
    \/ LegacyReconcile
    \/ LegacyConfigure
    \/ LegacyCompile

\* one command on one machine: a command of pdg.py that needs a package
\* manager or the compiler environment, build.py or cpp_check.py
NextHost ==
    \/ StartBuild
    \/ FrontendClean
    \/ FrontendFindPackageManager
    \/ FrontendCheckDependencies
    \/ FrontendInstall
    \/ FrontendBuild
    \/ BackendClean
    \/ BackendEnv
    \/ BackendConfigure
    \/ BackendCompile
    \/ BackendPost
    \/ StartTest
    \/ TestBackendCheck
    \/ TestBackendEnv
    \/ TestBackendCtest
    \/ TestFrontendRun
    \/ StartLint
    \/ StartCheck
    \/ StartDev
    \/ LintFrontendFind
    \/ LintFrontendLint
    \/ LintFrontendTypecheck
    \/ LintCpp
    \/ CheckTest
    \/ CheckBuild
    \/ DevRun
    \/ runs < MaxCmds /\ StartLegacyBuild
    \/ runs < MaxCmds /\ StartCppCheck
    \/ LegacyBuildClean
    \/ LegacyBuildEnv
    \/ CppCheckEnv
    \/ CppCheckFormatLint
    \/ LegacyReconcile
    \/ LegacyConfigure
    \/ LegacyCompile

(***************************************************************************)
(* main: the handler's return value becomes the exit code                  *)
(***************************************************************************)

\* the commands of command_map; debug is a backend build of type Debug
Commands ==
    {"build", "test", "lint", "dev", "package", "check", "release", "clean"}

\* the command has not returned, raised or exited
Running ==
    /\ run.cmd \in Commands
    /\ result = "running"

\* a KeyboardInterrupt handled like any other exception
exit_code_Exception(outcome) == IF outcome = "True" THEN 0 ELSE 1

\* `sys.exit(0 if success else 1)`; `except KeyboardInterrupt: sys.exit(130)`;
\* `except Exception: sys.exit(1)`; a sys.exit(1) inside the handler is not
\* caught
exit_code(outcome) ==
    IF outcome = "interrupted" THEN 130
    ELSE IF outcome = "True" THEN 0
    ELSE 1

\* Ctrl+C while the handler runs: the KeyboardInterrupt unwinds to main, the
\* `with zipfile.ZipFile(...)` block it passes closes the archive
Interrupt ==
    /\ Running
    /\ result' = "interrupted"
    /\ run' = [run EXCEPT !.pc = "end"]
    /\ stage' = IF run.cmd = "release" THEN "Interrupted" ELSE stage
    /\ zip' = [zip EXCEPT !.open = FALSE]
    /\ UNCHANGED <<cli, tags, tags0, gitOk, commitLog, latest_tag, version,
                   lintResult, testResult, buildResult, invoked, build, dist,
                   notes, printed, categories, runs, host, frontend, bdir,
                   logs>>

\* main leaves with sys.exit
Exit ==
    /\ run.cmd \in Commands
    /\ result # "running"
    /\ run.exit = NoExit
    /\ run' = [run EXCEPT !.exit = exit_code(result)]
    /\ UNCHANGED <<cli, tags, tags0, gitOk, commitLog, stage, latest_tag,
                   version, lintResult, testResult, buildResult, invoked, build,
                   dist, notes, zip, printed, result, categories, runs, host,
                   frontend, bdir, logs>>

\* every command of pdg.py, Ctrl+C and the exit
NextMain ==
    \/ NextTools
    \/ StartLint
    \/ StartCheck
    \/ StartDev
    \/ LintFrontendFind
    \/ LintFrontendLint
    \/ LintFrontendTypecheck
    \/ LintCpp
    \/ CheckTest
    \/ CheckBuild
    \/ DevRun
    \/ runs < MaxCmds /\ StartPackage
    \/ PackageBuild
    \/ PackageClean
    \/ PackageCopyExe
    \/ PackageCopyFrontend
    \/ runs < MaxCmds /\ StartRelease
    \/ Next
    \/ Interrupt
    \/ Exit

(***************************************************************************)
(* Inputs                                                                  *)
(***************************************************************************)
T_1_2_0 == <<"1", ".", "2", ".", "0">>
T_1_10_0 == <<"1", ".", "1", "0", ".", "0">>
T_1_2_3 == <<"1", ".", "2", ".", "3">>
T_v1_2_3 == <<"v", "1", ".", "2", ".", "3">>
T_v1_9_9 == <<"v", "1", ".", "9", ".", "9">>
T_2_0_0 == <<"2", ".", "0", ".", "0">>
T_v1_0_0 == <<"v", "1", ".", "0", ".", "0">>
T_latest == <<"l", "a", "t", "e", "s", "t">>
T_v1_2 == <<"v", "1", ".", "2">>
T_abc == <<"a", "b", "c">>
T_vv2_0_0 == <<"v", "v", "2", ".", "0", ".", "0">>
T_x1_0_0 == <<"x", "1", ".", "0", ".", "0">>

Commit(subject, h) ==
    [subject |-> subject, hash |-> <<"h", h>>, author |-> <<"a", "u">>]

S_featX == <<"f", "e", "a", "t", ":", " ", "X">>
S_fixY == <<"f", "i", "x", ":", " ", "Y">>
S_choreZ == <<"c", "h", "o", "r", "e", ":", " ", "Z">>
S_perfP == <<"p", "e", "r", "f", ":", " ", "p">>
S_refactorR == <<"r", "e", "f", "a", "c", "t", "o", "r", ":", " ", "r">>
S_docsD == <<"d", "o", "c", "s", ":", " ", "d">>
S_featUi == <<"f", "e", "a", "t", "(", "u", "i", ")", ":", " ", "A">>
S_featureB == <<"f", "e", "a", "t", "u", "r", "e", " ", "B">>
S_fixPipe == <<"f", "i", "x", ":", " ", "a", "|", "b">>

StaleBuild ==
    [exe |-> TRUE, frontend_exists |-> TRUE, frontend |-> {"index.html"}]
StaleDist == [exists |-> TRUE, files |-> {ExeFile, StaleFile}]
StaleZip ==
    [exists |-> TRUE, byRun |-> FALSE, open |-> FALSE, entries |-> {StaleFile},
     name |-> None]

\* the state cmd_release starts in
Start ==
    /\ tags0 = tags
    /\ stage = "ResolvingVersion"
    /\ latest_tag = None
    /\ version = None
    /\ lintResult = "none"
    /\ testResult = "none"
    /\ buildResult = "none"
    /\ invoked = <<>>
    /\ notes = NoNotes
    /\ printed = NothingPrinted
    /\ result = "running"
    /\ categories = NoCategories
    /\ ToolsUntouched

\* whole runs of release over a few command lines, tag sets and histories
Init ==
    /\ cli \in [version : {None, T_v1_2_3, T_abc}, bump : {"absent", "minor"},
                draft : BOOLEAN, skip_checks : BOOLEAN]
    /\ tags \in {{}, {T_v1_2_3}, {T_1_2_3, T_latest}}
    /\ gitOk = TRUE
    /\ commitLog \in {<<>>, <<Commit(S_featX, "2"), Commit(S_choreZ, "1")>>}
    /\ build \in {NoBuildOutput, StaleBuild}
    /\ dist \in {Absent, StaleDist}
    /\ zip \in {NoZip, StaleZip}
    /\ Start

Spec == Init /\ [][Next]_vars


\* ---- bounds of the input spaces ----
MaxTags == 3
MaxCommits == 2

TagPool ==
    {T_1_2_0, T_1_10_0, T_1_2_3, T_v1_2_3, T_v1_9_9, T_2_0_0, T_v1_0_0,
     T_latest, T_v1_2}

VersionInputs == {None, T_v1_2_3, T_1_2_3, T_vv2_0_0, T_abc, T_x1_0_0, T_v1_2}

SubjectPool ==
    {S_featX, S_fixY, S_choreZ, S_perfP, S_refactorR, S_docsD, S_featUi,
     S_featureB, S_fixPipe}

\* the commit histories of at most n commits over the subject pool
RECURSIVE Histories(_)
Histories(n) ==
    IF n = 0 THEN {<<>>}
    ELSE Histories(n - 1) \cup
         {Append(h, Commit(subj, ToStr(n)[1])) :
              h \in {g \in Histories(n - 1) : Len(g) = n - 1}, subj \in SubjectPool}

\* version resolution alone, over many tag sets and command lines
InitVersion ==
    /\ cli \in [version : VersionInputs, bump : {"absent"} \cup BumpKinds,
                draft : {FALSE}, skip_checks : {FALSE}]
    /\ tags \in {T \in SUBSET TagPool : Cardinality(T) <= MaxTags}
    /\ gitOk \in BOOLEAN
    /\ commitLog = <<>>
    /\ build = NoBuildOutput
    /\ dist = Absent
    /\ zip = NoZip
    /\ Start

NextVersion == ResolveVersion

SpecVersion == InitVersion /\ [][NextVersion]_vars

\* whole runs without an explicit version, over many commit histories
InitNotes ==
    /\ cli \in [version : {None}, bump : {"absent"}, draft : {FALSE},
                skip_checks : BOOLEAN]
    /\ tags \in {{}, {T_v1_2_3}, {T_1_2_3}}
    /\ gitOk = TRUE
    /\ commitLog \in Histories(MaxCommits)
    /\ build = NoBuildOutput
    /\ dist = Absent
    /\ zip = NoZip
    /\ Start

SpecNotes == InitNotes /\ [][Next]_vars

\* sequences of package, package.py and release over one working tree
InitBundle ==
    /\ cli = [version |-> None, bump |-> "absent", draft |-> FALSE,
              skip_checks |-> TRUE]
    /\ tags = {T_v1_2_3}
    /\ tags0 = tags
    /\ gitOk = TRUE
    /\ commitLog = <<Commit(S_featX, "1")>>
    /\ stage = "Done"
    /\ latest_tag = None
    /\ version = None
    /\ lintResult = "none"
    /\ testResult = "none"
    /\ buildResult = "none"
    /\ invoked = <<>>
    /\ build \in {NoBuildOutput, StaleBuild}
    /\ dist \in {Absent, StaleDist}
    /\ notes = NoNotes
    /\ zip = NoZip
    /\ printed = NothingPrinted
    /\ result = "none"
    /\ categories = NoCategories
    /\ run = NoRun
    /\ runs = 0
    /\ host = DevHost
    /\ frontend = Checkout
    /\ bdir = IF build = NoBuildOutput THEN NoBuildDir
              ELSE [NoBuildDir EXCEPT !.exists = TRUE, !.cache = Ninja,
                                      !.cmake_files = TRUE]
    /\ logs = NoLogs

SpecBundle == InitBundle /\ [][NextBundle]_vars

\* a directory or a file: absent, or present with a modification time
DirStates == {NoDir} \cup {[exists |-> TRUE, mtime |-> t] : t \in Times}

\* a working tree in which the web build has run
BuiltFrontend ==
    [package_json |-> [exists |-> TRUE, mtime |-> 0],
     node_modules |-> [exists |-> TRUE, mtime |-> 1],
     dist |-> [exists |-> TRUE, files |-> {"index.html", "app.js"}],
     caches |-> ViteCaches \cup {FrontendCache}]

\* build/ as earlier native builds with either generator left it
BuildDirs ==
    {NoBuildDir} \cup
    {[exists |-> TRUE, cache |-> c, cmake_files |-> c # NoCache,
      predategrip |-> c # NoCache, webview2 |-> BuildTypes] :
         c \in {NoCache, Ninja, VisualStudio}}

F_a_log == <<"a", ".", "l", "o", "g">>
F_b_log == <<"b", ".", "l", "o", "g">>
F_a_txt == <<"a", ".", "t", "x", "t">>
F_log == <<"l", "o", "g">>
LogDirs == {NoLogs, [exists |-> TRUE, files |-> {F_a_log, F_b_log, F_a_txt, F_log}]}

\* sequences of build, test and clean: over every combination of manifest
\* and installed dependencies in a tree never built, and over every build
\* directory and tool set in a tree that was built
InitTools ==
    /\ cli = [version |-> None, bump |-> "absent", draft |-> FALSE,
              skip_checks |-> TRUE]
    /\ tags = {T_v1_2_3}
    /\ tags0 = tags
    /\ gitOk = TRUE
    /\ commitLog = <<>>
    /\ stage = "Done"
    /\ latest_tag = None
    /\ version = None
    /\ lintResult = "none"
    /\ testResult = "none"
    /\ buildResult = "none"
    /\ invoked = <<>>
    /\ notes = NoNotes
    /\ zip = NoZip
    /\ printed = NothingPrinted
    /\ result = "none"
    /\ categories = NoCategories
    /\ run = NoRun
    /\ runs = 0
    /\ \/ /\ frontend \in [package_json : DirStates, node_modules : DirStates,
                             dist : {Absent}, caches : {{}}]
          /\ host \in {[DevHost EXCEPT !.bun = b, !.npm = "absent"] :
                         b \in {"absent", "ok"}}
          /\ bdir = NoBuildDir
          /\ logs = NoLogs
       \/ /\ frontend = BuiltFrontend
          /\ host \in {[DevHost EXCEPT !.ninja = n, !.vcvars = v] :
                         n \in BOOLEAN, v \in {{}, {possible_paths[1]}}}
          /\ bdir \in BuildDirs
          /\ logs \in LogDirs
    /\ build = IF bdir.predategrip THEN StaleBuild ELSE NoBuildOutput
    /\ dist \in {Absent, StaleDist}

SpecTools == InitTools /\ [][NextTools]_vars

\* any command of pdg.py in a tree that was built and released before, on a
\* machine with the compiler and on one without
InitMain ==
    /\ cli = [version |-> None, bump |-> "absent", draft |-> FALSE,
              skip_checks |-> TRUE]
    /\ tags = {T_v1_2_3}
    /\ tags0 = tags
    /\ gitOk = TRUE
    /\ commitLog = <<Commit(S_featX, "1")>>
    /\ stage = "Done"
    /\ latest_tag = None
    /\ version = None
    /\ lintResult = "none"
    /\ testResult = "none"
    /\ buildResult = "none"
    /\ invoked = <<>>
    /\ notes = NoNotes
    /\ zip = StaleZip
    /\ printed = NothingPrinted
    /\ result = "none"
    /\ categories = NoCategories
    /\ run = NoRun
    /\ runs = 0
    /\ host \in {DevHost, [DevHost EXCEPT !.vcvars = {}]}
    /\ frontend = BuiltFrontend
    /\ bdir = [exists |-> TRUE, cache |-> Ninja, cmake_files |-> TRUE,
               predategrip |-> TRUE, webview2 |-> BuildTypes]
    /\ logs = [exists |-> TRUE, files |-> {F_a_log, F_a_txt}]
    /\ build = StaleBuild
    /\ dist = StaleDist

SpecMain == InitMain /\ [][NextMain]_vars

\* what `vcvars64.bat && set` may print: a line without "=", a value with
\* "=", the same variable twice
L_banner == <<"b", "a", "n", "n", "e", "r">>
L_A_b_c == <<"A", "=", "b", "=", "c">>
L_PATH_y == <<"P", "=", "y">>
VcvarsOutputs ==
    {<<>>, <<L_banner>>, VcvarsOutput, <<L_banner, L_A_b_c>>,
     <<L_PATH, L_A_b_c, L_PATH_y>>}

\* where vcvars64.bat is on the machine
VcvarsSets ==
    {{}, {possible_paths[1]}, {possible_paths[5], possible_paths[2]},
     {legacy_possible_paths[9]}, {legacy_possible_paths[11], possible_paths[8]}}

\* one command in a tree that was built before: over every state of the two
\* package managers, and over the places, exit codes and outputs of
\* vcvars64.bat
InitHost ==
    /\ cli = [version |-> None, bump |-> "absent", draft |-> FALSE,
              skip_checks |-> TRUE]
    /\ tags = {T_v1_2_3}
    /\ tags0 = tags
    /\ gitOk = TRUE
    /\ commitLog = <<>>
    /\ stage = "Done"
    /\ latest_tag = None
    /\ version = None
    /\ lintResult = "none"
    /\ testResult = "none"
    /\ buildResult = "none"
    /\ invoked = <<>>
    /\ notes = NoNotes
    /\ zip = NoZip
    /\ printed = NothingPrinted
    /\ result = "none"
    /\ categories = NoCategories
    /\ run = NoRun
    /\ runs = MaxCmds - 1
    /\ \/ host \in {[DevHost EXCEPT !.bun = b, !.npm = n] :
                        b \in ToolStates, n \in ToolStates}
       \/ host \in {[DevHost EXCEPT !.vcvars = v, !.vcvars_rc = rc,
                                    !.vcvars_out = out] :
                        v \in VcvarsSets, rc \in {0, 1}, out \in VcvarsOutputs}
    /\ frontend = BuiltFrontend
    /\ bdir = [exists |-> TRUE, cache |-> Ninja, cmake_files |-> TRUE,
               predategrip |-> TRUE, webview2 |-> BuildTypes]
    /\ logs = NoLogs
    /\ build = StaleBuild
    /\ dist = Absent

SpecHost == InitHost /\ [][NextHost]_vars

SpecOverlap == InitBundle /\ [][NextOverlap]_vars

\* build/ as it may be found: absent, without CMakeCache.txt, with a cache
\* that has no generator line, with the cache of either generator, each with
\* and without CMakeFiles
CacheDirs ==
    {NoBuildDir} \cup
    {[exists |-> TRUE, cache |-> c, cmake_files |-> f,
      predategrip |-> c \in {Ninja, VisualStudio}, webview2 |-> {}] :
         c \in {NoCache, NoEntry, Ninja, VisualStudio}, f \in BOOLEAN}

\* runs of build.py and cpp_check.py over every such build directory, with
\* and without ninja
InitCache ==
    /\ cli = [version |-> None, bump |-> "absent", draft |-> FALSE,
              skip_checks |-> TRUE]
    /\ tags = {T_v1_2_3}
    /\ tags0 = tags
    /\ gitOk = TRUE
    /\ commitLog = <<>>
    /\ stage = "Done"
    /\ latest_tag = None
    /\ version = None
    /\ lintResult = "none"
    /\ testResult = "none"
    /\ buildResult = "none"
    /\ invoked = <<>>
    /\ notes = NoNotes
    /\ zip = NoZip
    /\ printed = NothingPrinted
    /\ result = "none"
    /\ categories = NoCategories
    /\ run = NoRun
    /\ runs = 0
    /\ host \in {[DevHost EXCEPT !.ninja = n] : n \in BOOLEAN}
    /\ frontend = Checkout
    /\ bdir \in CacheDirs
    /\ logs = NoLogs
    /\ build = NoBuildOutput
    /\ dist = Absent

SpecCache == InitCache /\ [][NextLegacy]_vars

\* a file only an earlier build can have left
OldFile == "old.js"

\* a release in a tree that was built before, with or without the checks, on
\* a machine with either generator
InitRebuild ==
    /\ cli \in [version : {None}, bump : {"absent"}, draft : {FALSE},
                skip_checks : BOOLEAN]
    /\ tags \in {{}, {T_v1_2_3}}
    /\ tags0 = tags
    /\ gitOk = TRUE
    /\ commitLog = <<Commit(S_featX, "1")>>
    /\ stage = "ResolvingVersion"
    /\ latest_tag = None
    /\ version = None
    /\ lintResult = "none"
    /\ testResult = "none"
    /\ buildResult = "none"
    /\ invoked = <<>>
    /\ notes = NoNotes
    /\ zip = NoZip
    /\ printed = NothingPrinted
    /\ result = "running"
    /\ categories = NoCategories
    /\ runs = 1
    /\ host \in {[DevHost EXCEPT !.ninja = n] : n \in BOOLEAN}
    /\ frontend = [BuiltFrontend EXCEPT !.dist.files = {"index.html", OldFile}]
    /\ bdir = [exists |-> TRUE, cache |-> Ninja, cmake_files |-> TRUE,
               predategrip |-> TRUE, webview2 |-> BuildTypes]
    /\ logs = NoLogs
    /\ build = [exe |-> TRUE, frontend_exists |-> TRUE,
                frontend |-> {"index.html", OldFile}]
    /\ dist = StaleDist
    /\ run = Begin("release", "stage")

SpecRebuild == InitRebuild /\ [][NextRebuild]_vars

(***************************************************************************)
(* Properties                                                              *)
(***************************************************************************)
Stages ==
    <<"ResolvingVersion", "RunningChecks", "Building", "Packaging",
      "GeneratingNotes", "Archiving", "Done">>

StageIndex(st) == CHOOSE i \in 1..Len(Stages) : Stages[i] = st

\* the stages that come after st
After(st) == {Stages[i] : i \in (StageIndex(st) + 1)..Len(Stages)}

IsPrefix(a, b) == Len(a) <= Len(b) /\ SubSeq(b, 1, Len(a)) = a

AllOps == <<"lint", "test", "build", "copy", "notes", "archive", "print">>

Has(log, op) == \E i \in 1..Len(log) : log[i] = op

ChecksPassed ==
    \/ args.skip_checks /\ lintResult = "none" /\ testResult = "none"
    \/ ~args.skip_checks /\ lintResult = "ok" /\ testResult = "ok"

BundleComplete ==
    /\ dist.exists
    /\ ExeFile \in dist.files
    /\ \E f \in dist.files : Len(f) = 2 /\ f[1] = "frontend"

ArchiveByRun == zip.exists /\ zip.byRun

\* what holds of a run that is in a given stage: every earlier stage succeeded
StageReached ==
    /\ stage \in After("RunningChecks") => ChecksPassed
    /\ stage \in After("Building") => buildResult = "ok"
    /\ stage \in After("Packaging") => BundleComplete
    /\ stage \in After("GeneratingNotes") => notes.exists
    /\ stage = "Done" => ArchiveByRun /\ ~zip.open /\ zip.entries = dist.files
    /\ (lintResult = "fail" \/ testResult = "fail" \/ buildResult = "fail")
          => stage = "Failed"
    /\ (stage = "Failed") <=> (result \in {"False", "raised"})
    /\ \/ IsPrefix(invoked, AllOps)
       \/ args.skip_checks /\ IsPrefix(invoked, Drop(AllOps, 2))

\* C1: the stages of release happen only in the order ResolvingVersion,
\* RunningChecks, Building, Packaging, GeneratingNotes, Archiving, Done; a
\* stage is entered only when every earlier stage succeeded, the operations
\* are performed in that order, and once a stage failed the run stays failed
\* and performs nothing more.
C1_StageOrder ==
    [][ /\ stage' # stage =>
              \/ /\ stage \notin {"Done", "Failed"}
                 /\ stage' = Stages[StageIndex(stage) + 1]
              \/ stage \notin {"Done", "Failed"} /\ stage' = "Failed"
        /\ stage = "Failed" =>
              UNCHANGED <<invoked, build, dist, notes, zip, printed, result>>
        /\ StageReached' ]_vars

C1_Witness == stage = "Done" /\ invoked = AllOps /\ result = "True"

\* C2: a release run that ended in failure has left no archive written or
\* partly written by that run, and has created no tag.
C2_NoArchiveAfterFailure ==
    stage = "Failed" => ~ArchiveByRun /\ tags = tags0

\* C3: without skip_checks lint and then the frontend test run before any
\* build; a failing lint prevents the test and the build, a failing test
\* prevents the build, and both make release return False.  With skip_checks
\* neither is invoked.
C3_ChecksBeforeBuild ==
    /\ args.skip_checks =>
          lintResult = "none" /\ testResult = "none"
          /\ ~Has(invoked, "lint") /\ ~Has(invoked, "test")
    /\ testResult # "none" => lintResult = "ok"
    /\ (~args.skip_checks /\ buildResult # "none") =>
          /\ lintResult = "ok" /\ testResult = "ok"
          /\ SubSeq(invoked, 1, 3) = <<"lint", "test", "build">>
    /\ lintResult = "fail" =>
          testResult = "none" /\ buildResult = "none" /\ result = "False"
          /\ invoked = <<"lint">>
    /\ testResult = "fail" =>
          buildResult = "none" /\ result = "False"
          /\ invoked = <<"lint", "test">>

C3_Witness ==
    lintResult = "ok" /\ testResult = "fail" /\ stage = "Failed"

\* C4: release leaves the tags as they were, whether it succeeds or fails; the
\* tag and publish commands it prints carry the resolved version, and the
\* draft flag exactly when --draft was given.
C4_TagsUntouched ==
    /\ tags = tags0
    /\ stage = "Done" => printed.done
    /\ printed.done =>
          /\ printed.tag_version = version
          /\ printed.push_version = version
          /\ printed.release_version = version
          /\ printed.draft_flag = (IF cli.draft THEN "--draft " ELSE "")

C4_Witness ==
    stage = "Done" /\ cli.draft /\ printed.done
    /\ printed.draft_flag = "--draft " /\ tags # {}

\* the numeric triple of a tag or version of the form [v]MAJOR.MINOR.PATCH
Triple(t) ==
    LET rest  == IF t # <<>> /\ Head(t) = "v" THEN Tail(t) ELSE t
        parts == Split(rest, ".")
    IN  <<ToInt(parts[1]), ToInt(parts[2]), ToInt(parts[3])>>

TripleLess(a, b) ==
    \/ a[1] < b[1]
    \/ a[1] = b[1] /\ a[2] < b[2]
    \/ a[1] = b[1] /\ a[2] = b[2] /\ a[3] < b[3]

FormatTriple(a) ==
    ToStr(a[1]) \o <<".">> \o ToStr(a[2]) \o <<".">> \o ToStr(a[3])

SemverTags == {t \in tags : MatchesSemver(t)}

\* C5: when the tags can be listed, the tag selected as latest is the maximum
\* by numeric (major, minor, patch) among the tags matching the pattern, with
\* or without the leading marker; None when no tag matches.
C5_LatestIsNumericMax ==
    (stage # "ResolvingVersion" /\ gitOk) =>
        IF SemverTags = {} THEN latest_tag = None
        ELSE /\ Truthy(latest_tag)
             /\ \E t \in SemverTags : Triple(t) = Triple(latest_tag)
             /\ \A t \in SemverTags : ~TripleLess(Triple(latest_tag), Triple(t))

\* C6: without an explicit version and with a latest tag (a, b, c), the
\* resolved version is (a+1, 0, 0) for major, (a, b+1, 0) for minor and
\* (a, b, c+1) for patch, patch being the bump when none is requested.
C6_IncrementOfLatest ==
    (stage # "ResolvingVersion" /\ ~Truthy(cli.version) /\ Truthy(latest_tag)) =>
        LET t == Triple(latest_tag)
            bump == IF cli.bump = "absent" THEN "patch" ELSE cli.bump
        IN  version = FormatTriple(
                CASE bump = "major" -> <<t[1] + 1, 0, 0>>
                  [] bump = "minor" -> <<t[1], t[2] + 1, 0>>
                  [] bump = "patch" -> <<t[1], t[2], t[3] + 1>>)

C6_Witness ==
    /\ stage = "RunningChecks" /\ ~Truthy(cli.version) /\ cli.bump = "major"
    /\ latest_tag = <<"1", ".", "9", ".", "9">>
    /\ version = <<"2", ".", "0", ".", "0">>

\* C7: without an explicit version and without a tag matching the pattern the
\* resolved version is 1.0.0, whatever the bump.
C7_DefaultVersion ==
    (stage # "ResolvingVersion" /\ ~Truthy(cli.version) /\ SemverTags = {}) =>
        version = <<"1", ".", "0", ".", "0">>

C7_Witness ==
    /\ stage = "RunningChecks" /\ ~Truthy(cli.version) /\ cli.bump = "major"
    /\ tags = {T_latest, T_v1_2} /\ gitOk
    /\ version = <<"1", ".", "0", ".", "0">>

IsNumericTriple(s) ==
    LET parts == Split(s, ".")
    IN  Len(parts) = 3 /\ \A i \in 1..3 : IsDigits(parts[i])

\* C9: an explicit version that is not MAJOR.MINOR.PATCH after the marker is
\* stripped makes release fail while resolving the version: no check, build,
\* bundle, notes file or archive is produced.
C9_MalformedVersionRejected ==
    (Truthy(cli.version) /\ ~IsNumericTriple(LStrip(cli.version, "v"))) =>
        /\ stage \in {"ResolvingVersion", "Failed"}
        /\ invoked = <<>>
        /\ ~notes.exists
        /\ ~ArchiveByRun

\* the category the release notes are specified to file a subject under
SpecCategory(msg) ==
    IF StartsWith(msg, P_feat) THEN "feat"
    ELSE IF StartsWith(msg, P_fix) THEN "fix"
    ELSE IF StartsWith(msg, P_perf) THEN "perf"
    ELSE IF StartsWith(msg, P_refactor) THEN "refactor"
    ELSE "other"

CountLines(lines, line) == Cardinality({i \in 1..Len(lines) : lines[i] = line})

\* C10: the notes hold exactly one section for each category that received a
\* commit and none for an empty one, "other" included: a subject matching no
\* category prefix is listed verbatim.
C10_SectionPerCategory ==
    (notes.exists /\ Truthy(latest_tag)) =>
        LET commits == get_commits_since_tag(latest_tag, tags, commitLog)
            received(cat) ==
                \E i \in 1..Len(commits) : SpecCategory(commits[i].message) = cat
            sections(h) == CountLines(notes.lines, h)
        IN  /\ sections(H_feat) = IF received("feat") THEN 1 ELSE 0
            /\ sections(H_fix) = IF received("fix") THEN 1 ELSE 0
            /\ sections(H_perf) = IF received("perf") THEN 1 ELSE 0
            /\ sections(H_refactor) = IF received("refactor") THEN 1 ELSE 0
            /\ \A i \in 1..Len(commits) :
                  SpecCategory(commits[i].message) = "other" =>
                      CountLines(notes.lines, <<"-", " ">> \o commits[i].message) > 0

\* the five categories of the release notes, in priority order, with the
\* prefix of each of the first four
FiveCategories == <<"feat", "fix", "perf", "refactor", "other">>
PrefixOf == <<P_feat, P_fix, P_perf, P_refactor>>

\* the first category, in priority order, whose prefix msg starts with
FirstCategory(msg) ==
    LET hits == {k \in 1..Len(PrefixOf) : StartsWith(msg, PrefixOf[k])}
    IN  IF hits = {} THEN "other"
        ELSE FiveCategories[CHOOSE k \in hits : \A j \in hits : k <= j]

InBucket(msg, cat) == \E j \in 1..Len(categories[cat]) : categories[cat][j] = msg

\* C11: categorization places every commit in exactly one of the five
\* categories feature, fix, performance, refactor, other: in the first, in
\* that order, whose prefix the subject starts with, and in other when the
\* subject starts with none of the four prefixes (docs, chore).
C11_FiveCategories ==
    (notes.exists /\ Truthy(latest_tag)) =>
        LET commits == get_commits_since_tag(latest_tag, tags, commitLog)
        IN  \A i \in 1..Len(commits) : \A cat \in DOMAIN categories :
                InBucket(commits[i].message, cat)
                    <=> cat = FirstCategory(commits[i].message)

\* what assembly expects to find after the build, for the command being run
BinaryExists == IF run.cmd = "package.py" THEN bdir.predategrip ELSE build.exe
WebOutputExists ==
    IF run.cmd = "package.py" THEN frontend.dist.exists
    ELSE build.frontend_exists

\* bundle assembly of the running command has ended, and how
AssemblyFailed ==
    /\ buildResult = "ok"
    /\ \/ run.cmd = "release" /\ stage = "Failed" /\ ~Has(invoked, "copy")
          /\ Has(invoked, "build")
       \/ run.cmd \in {"package", "package.py"} /\ run.pc = "end"
          /\ result # "True"
AssemblySucceeded ==
    \/ run.cmd = "release" /\ Has(invoked, "copy")
    \/ run.cmd \in {"package", "package.py"} /\ result = "True"

\* C12: bundle assembly, in package and in release, reports failure whenever
\* the expected binary or the expected web-output directory does not exist
\* after the build (binary missing, web output missing, both missing); it
\* never reports success with a bundle lacking either.
C12_MissingInputFails ==
    AssemblySucceeded =>
        /\ BinaryExists
        /\ WebOutputExists
        /\ \E f \in dist.files : Len(f) = 1
        /\ dist.files \cap {<<"frontend", f>> : f \in {"index.html", "app.js"}} # {}

\* C13: when assembly fails because the web-output directory does not exist
\* while the binary exists, nothing has been copied: the bundle directory
\* holds neither the binary nor any frontend file.  For package and release.
C13_NoPartialCopy ==
    (run.cmd \in {"package", "release"} /\ AssemblyFailed
        /\ BinaryExists /\ ~WebOutputExists) => dist.files = {}

\* C14: after every successful package or release the bundle directory holds
\* exactly the binary and the files of the web-output tree copied in that
\* run: no file of a bundle directory left by an earlier invocation survives,
\* whatever package and release invocations came before.
C14_FreshBundle ==
    (run.cmd \in {"package", "release"} /\ AssemblySucceeded) =>
        /\ dist.exists
        /\ dist.files = {ExeFile} \cup {<<"frontend", f>> : f \in build.frontend}

\* a second or later command succeeded over a bundle directory that held a
\* file this run did not copy
C14_Witness ==
    /\ run.cmd \in {"package", "release"}
    /\ AssemblySucceeded
    /\ runs >= 2
    /\ run.dist0.files \ dist.files # {}

\* C15: package first runs build with target both and type Release and only
\* then assembles the bundle: if that build reports failure, package reports
\* failure and the existing bundle directory is neither deleted nor modified.
C15_BuildBeforeAssembly ==
    run.cmd = "package" =>
        /\ invoked # <<>> =>
              /\ invoked[1] = "build"
              /\ run.target = "all" /\ run.type = "Release"
        /\ (Has(invoked, "rmtree") \/ Has(invoked, "mkdir") \/ Has(invoked, "copy exe")
               \/ Has(invoked, "copy frontend")) => buildResult = "ok"
        /\ buildResult = "fail" =>
              /\ run.pc = "end"
              /\ result = "False"
              /\ dist = run.dist0

\* package ended at a failed build in a tree that held a bundle directory
C15_Witness ==
    /\ run.cmd = "package"
    /\ buildResult = "fail"
    /\ run.pc = "end"
    /\ run.dist0.exists
    /\ run.dist0.files # {}

\* the steps of the web build and of the native build in the log
WebSteps == {"fe:clean", "fe:install", "fe:build"}
NativeSteps ==
    {"be:start", "be:clean", "be:env", "be:configure", "be:compile", "be:post"}

\* C16: in build with target both, the web build runs to completion before
\* the native build starts; if the web build fails, the native build (its
\* clean, configure and compile steps included) is never started and build
\* reports failure.
C16_WebBeforeNative ==
    (run.cmd = "build" /\ run.target = "all") =>
        /\ \A i, j \in 1..Len(invoked) :
              (invoked[i] \in NativeSteps /\ invoked[j] \in WebSteps) => j < i
        /\ (\E i \in 1..Len(invoked) : invoked[i] \in NativeSteps) =>
              run.fe = "ok"
        /\ run.fe = "fail" =>
              /\ run.pc = "end"
              /\ result = "False"
              /\ \A i \in 1..Len(invoked) : invoked[i] \notin NativeSteps
              /\ bdir.cache = run.files0.bdir.cache
              /\ bdir.exists = run.files0.bdir.exists

\* build all ended at a web build that ran and failed, over a build directory
C16_Witness ==
    /\ run.cmd = "build"
    /\ run.target = "all"
    /\ run.clean
    /\ run.fe = "fail"
    /\ Has(invoked, "fe:build")
    /\ run.pc = "end"
    /\ bdir.exists

\* C17: in every native build the generator is reconciled before the
\* external configure step: when configure is invoked, either the build
\* directory holds no persisted configuration cache or the generator recorded
\* in it is the generator passed to configure, whatever an earlier build left.
C17_GeneratorReconciled ==
    (run.cmd = "build" /\ run.configure.called) =>
        \/ run.configure.cached = NoCache
        \/ run.configure.cached = run.configure.generator

\* the install criterion as specified
InstallNeeded(fe) ==
    \/ ~fe.node_modules.exists
    \/ /\ fe.package_json.exists
       /\ fe.package_json.mtime > fe.node_modules.mtime

\* C18: for every combination of install-directory existence, manifest
\* existence and modification times, the web build runs the install step iff
\* the install directory does not exist, or the manifest exists and is
\* strictly newer; with equal times the install is skipped.  The decision
\* changes no file and is the same when repeated on an unchanged filesystem.
C18_InstallIffStale ==
    /\ [](run.cmd = "build" =>
            /\ run.pc = "fe_install" =>
                  /\ (run.deps = "install") <=> InstallNeeded(frontend)
                  /\ (run.deps = "install") <=> needs_install(frontend)
            /\ run.deps = "skip" => ~Has(invoked, "fe:install")
            /\ (run.deps = "install" /\ run.pc # "fe_install") =>
                  Has(invoked, "fe:install")
            /\ needs_install(frontend) <=> ~check_node_modules(frontend))
    /\ [][run.pc = "fe_deps" => Files' = Files]_vars

\* the web build went on without installing, the manifest being exactly as
\* old as the installed dependencies
C18_Witness ==
    /\ run.cmd = "build"
    /\ run.deps = "skip"
    /\ Has(invoked, "fe:build")
    /\ frontend.package_json.exists
    /\ frontend.node_modules.exists
    /\ frontend.package_json.mtime = frontend.node_modules.mtime
    /\ frontend.package_json.mtime > 0

\* C19: test with target native fails fast when the build directory does not
\* exist: it reports failure without bootstrapping the compiler environment
\* and without invoking the external test runner, and it changes no file.
C19_TestFailsFast ==
    (run.cmd = "test" /\ run.target = "backend" /\ ~run.files0.bdir.exists) =>
        /\ run.pc \in {"tb_check", "end"}
        /\ run.pc = "end" => result = "False"
        /\ ~Has(invoked, "env")
        /\ ~Has(invoked, "ctest")
        /\ Files = run.files0

\* test backend has ended in a tree without build directory
C19_Witness ==
    /\ run.cmd = "test"
    /\ run.target = "backend"
    /\ run.pc = "end"
    /\ ~bdir.exists
    /\ host.vcvars # {}

LogFiles(dir) == {f \in dir.files : IsLogFile(f)}

\* C20: clean deletes only artifacts of the named scope: logs removes only
\* log files in the log directory and leaves every cache, cache removes only
\* the cache directories and leaves every log file, all removes exactly the
\* union; for every scope the source files, the version-control state, the
\* built binary and the bundle are unchanged.
C20_CleanScope ==
    run.cmd = "clean" =>
        LET before == run.files0
            logs_scope == run.target \in {"logs", "all"}
            cache_scope == run.target \in {"cache", "all"}
        IN  /\ tags = before.tags
            /\ build = before.build
            /\ dist = before.dist
            /\ [frontend EXCEPT !.caches = {}] = [before.frontend EXCEPT !.caches = {}]
            /\ [bdir EXCEPT !.webview2 = {}] = [before.bdir EXCEPT !.webview2 = {}]
            /\ before.frontend.caches \ {FrontendCache} \subseteq frontend.caches
            /\ frontend.caches \subseteq before.frontend.caches
            /\ before.bdir.webview2 \ {"Release"} \subseteq bdir.webview2
            /\ bdir.webview2 \subseteq before.bdir.webview2
            /\ logs.exists = before.logs.exists
            /\ before.logs.files \ LogFiles(before.logs) \subseteq logs.files
            /\ logs.files \subseteq before.logs.files
            /\ ~cache_scope => frontend = before.frontend /\ bdir = before.bdir
            /\ ~logs_scope => logs = before.logs
            /\ result = "True" =>
                  /\ logs_scope => LogFiles(logs) = {}
                  /\ cache_scope => /\ FrontendCache \notin frontend.caches
                                    /\ "Release" \notin bdir.webview2

\* clean all has ended in a tree that held log files, another file in the log
\* directory, both caches, a binary and a bundle
C20_Witness ==
    /\ run.cmd = "clean"
    /\ run.target = "all"
    /\ result = "True"
    /\ LogFiles(run.files0.logs) # {}
    /\ logs.files # {}
    /\ FrontendCache \in run.files0.frontend.caches
    /\ "Release" \in run.files0.bdir.webview2
    /\ build.exe
    /\ dist.files # {}

CheckSteps == <<"lint", "typecheck", "cpp", "test", "build">>

\* C22: every failure aborts the operation: in lint and check no step is
\* taken after a step that failed, in build the native build is not started
\* after a failed web build, in release no check or build follows a failed
\* check, and an operation that ended with a failed step reports failure
C22_FailureAborts ==
    /\ run.cmd \in {"lint", "check"} =>
          /\ \A i \in 1..Len(CheckSteps), j \in 1..Len(CheckSteps) :
                (i < j /\ run.checks[CheckSteps[i]] = "fail")
                   => run.checks[CheckSteps[j]] = "none"
          /\ (run.pc = "end" /\ \E i \in 1..Len(CheckSteps) :
                                   run.checks[CheckSteps[i]] = "fail")
                => result \in {"False", "interrupted"}
    /\ (run.cmd = "build" /\ run.fe = "fail") => ~Has(invoked, "be:start")
    /\ run.cmd = "release" =>
          /\ lintResult = "fail" => testResult = "none" /\ buildResult = "none"
          /\ testResult = "fail" => buildResult = "none"

\* C23: no error is swallowed: a build that reports success caught no
\* exception on its way; a native Release build that reports success left a
\* binary and a copy of frontend/dist in build/Release/frontend; a clean
\* build that reports success removed frontend/dist as it was and the vite
\* caches
C23_NoErrorSwallowed ==
    (run.cmd = "build" /\ result = "True") =>
       /\ run.swallowed = {}
       /\ (run.target \in {"backend", "all"} /\ run.type = "Release") =>
             /\ build.exe \/ bdir.predategrip
             /\ frontend.dist.exists
             /\ build.frontend_exists
             /\ build.frontend = frontend.dist.files
       /\ (run.clean /\ run.target \in {"frontend", "all"}) =>
             frontend.caches \cap ViteCaches = {}

\* C24: release calls build_all for both targets, type Release, clean set,
\* and when it reaches Packaging the build directory was removed and made
\* anew and neither frontend/dist nor build/Release/frontend holds a file
\* from before the run
C24_FullRebuild ==
    (run.cmd = "release" /\ stage = "Packaging") =>
       /\ run.target = "all" /\ run.type = "Release" /\ run.clean
       /\ run.files0.bdir.exists => Has(invoked, "be:clean")
       /\ OldFile \notin frontend.dist.files
       /\ OldFile \notin build.frontend

V_1_0_0 == <<"1", ".", "0", ".", "0">>
Headings == {H_feat, H_fix, H_perf, H_refactor}

\* release with the checks skipped, no tag in the repository, no version
\* and no bump on the command line
FirstRelease ==
    /\ run.cmd = "release"
    /\ cli.skip_checks
    /\ cli.version = None
    /\ cli.bump = "absent"
    /\ tags0 = {}

\* C25: a release with the checks skipped, no tag and no bump, whose build
\* and packaging succeed, has version 1.0.0, writes notes without a category
\* section and ends with a closed archive named Velocity-DB-v1.0.0.zip that
\* holds at least one file
C25_FirstRelease ==
    FirstRelease =>
       /\ stage \in {"GeneratingNotes", "Archiving", "Done"} =>
             /\ version = V_1_0_0
             /\ buildResult = "ok"
             /\ dist.files # {}
       /\ stage \in {"Archiving", "Done"} =>
             /\ notes.exists
             /\ \A i \in 1..Len(notes.lines) : notes.lines[i] \notin Headings
             /\ notes.lines = <<TitleLine(V_1_0_0)>>
       /\ stage = "Done" =>
             /\ result = "True"
             /\ zip.exists /\ ~zip.open
             /\ zip.name = zip_name(V_1_0_0)
             /\ zip.entries # {}
             /\ zip.entries = dist.files

\* such a release is done, over an archive an earlier run left, with commits
\* in the history and a bundle of more than one file
C25_Witness ==
    /\ FirstRelease
    /\ stage = "Done"
    /\ commitLog # <<>>
    /\ Cardinality(zip.entries) > 1
    /\ StaleFile \notin zip.entries

\* `<pm> install` and `<pm> run <script>` in the log of operations
PmScripts ==
    {"fe:install", "fe:build", "run test", "run lint", "run typecheck",
     "run dev"}

\* the operation under way needs a package manager
NeedsPm ==
    \/ run.cmd = "build" /\ run.target \in {"frontend", "all"}
    \/ run.cmd = "test" /\ run.target = "frontend"
    \/ run.cmd \in {"lint", "check", "dev"}

\* C26: the package manager is bun iff bun is on the search path and answers
\* the version query, else npm iff npm is and does, else none; without one,
\* web build, web test, lint, check and dev run no install, build, test or
\* lint script and report failure
C26_PackageManager ==
    LET pm == find_package_manager(host)
        usable(tool) == tool # "absent" /\ tool = "ok"
    IN  NeedsPm =>
           /\ pm = "bun" <=> usable(host.bun)
           /\ pm = "npm" <=> (~usable(host.bun) /\ usable(host.npm))
           /\ pm = "none" <=> (~usable(host.bun) /\ ~usable(host.npm))
           /\ pm = "none" =>
                 /\ \A i \in 1..Len(invoked) : invoked[i] \notin PmScripts
                 /\ run.pc = "end" => result = "False"
           /\ (\E i \in 1..Len(invoked) : invoked[i] \in PmScripts)
                 => pm # "none"

\* lint has ended in failure on a machine where bun is on the search path
\* and does not answer and npm is missing; clang-format ran all the same
C26_Witness ==
    /\ run.cmd = "lint"
    /\ host.bun = "unresponsive"
    /\ host.npm = "absent"
    /\ run.pc = "end"
    /\ result = "False"
    /\ Has(invoked, "clang-format")

\* the candidate list of the script that is running
PathsOf(cmd) ==
    IF cmd \in {"build.py", "cpp_check.py"} THEN legacy_possible_paths
    ELSE possible_paths

\* configure, build and test steps in the log of operations
NativeTools ==
    {"be:configure", "be:compile", "configure", "compile", "ctest"}

\* C27: the compiler environment comes from the first candidate script, in
\* list order, that exists; when none exists the operation fails with a
\* diagnostic that lists every candidate location, and no configure or build
\* step is invoked
C27_ToolchainMissing ==
    run.msvc.called =>
       LET paths == PathsOf(run.cmd)
           found == {i \in 1..Len(paths) : paths[i] \in host.vcvars}
       IN  /\ found # {} =>
                 \E i \in found : /\ run.msvc.vcvars = paths[i]
                                  /\ \A j \in found : i <= j
           /\ found = {} =>
                 /\ run.msvc.outcome = "exit1"
                 /\ result = "exit1"
                 /\ run.msvc.diagnostic.error
                 /\ \A i \in 1..Len(paths) :
                       \E g \in run.msvc.diagnostic.searched :
                          g.root = paths[i].root /\ g.version = paths[i].version
                 /\ \A k \in 1..Len(invoked) : invoked[k] \notin NativeTools

\* C28: the bootstrap fails, and no configure, build or test step follows,
\* when vcvars64.bat exits with a non-zero code or no variable is captured;
\* the ambient environment is never returned in place of the captured one;
\* a mapping that is returned holds, for every output line with "=", the
\* text before the first "=" as a key, and each of its entries is the text
\* before and the text after the first "=" of such a line
C28_Bootstrap ==
    run.msvc.called =>
       LET out == host.vcvars_out
           lines == {k \in 1..Len(out) : HasEquals(out[k])}
           before(line) ==
               SubSeq(line, 1,
                      (CHOOSE n \in 1..Len(line) :
                          line[n] = "=" /\ \A m \in 1..(n - 1) : line[m] # "=") - 1)
       IN  /\ (run.msvc.vcvars # NotFound /\ (host.vcvars_rc # 0 \/ lines = {})) =>
                 /\ run.msvc.outcome = "exit1"
                 /\ result = "exit1"
                 /\ \A k \in 1..Len(invoked) : invoked[k] \notin NativeTools
           /\ ~run.msvc.ambient
           /\ (run.msvc.outcome = "env" /\ ~run.msvc.ambient) =>
                 /\ \A k \in lines : \E e \in run.msvc.env : e[1] = before(out[k])
                 /\ \A e \in run.msvc.env :
                       \E k \in lines :
                          /\ e[1] = before(out[k])
                          /\ e[1] \o <<"=">> \o e[2] = out[k]

\* C29: nothing serializes two invocations of package: while one is between
\* its two copies the other can remove and recreate dist/, and while one is
\* at that step the other can take its copy steps
C29_Unguarded ==
    (run.cmd = "package" /\ run.other.pc = "clean") =>
       /\ ENABLED OtherClean
       /\ run.pc = "exe" => ENABLED PackageCopyExe
       /\ run.pc = "frontend" => ENABLED PackageCopyFrontend

\* the first invocation has reported success, the second removed dist/
\* between its copies, and dist/ holds the web output without the binary
C29_Witness ==
    /\ run.cmd = "package"
    /\ result = "True"
    /\ run.other.pc = "exe"
    /\ ExeFile \notin dist.files
    /\ dist.files # {}
    /\ build.exe

\* C30: the reconciliation deletes nothing in the build directory when the
\* cache records no generator (no CMakeCache.txt, or one without a generator
\* line) or records the desired one: cpp_check.py then reaches its configure
\* step with the directory as it found it; and a second reconciliation
\* with the same generator, with no cache written in between, deletes nothing
C30_ReconcileNoOp ==
    /\ (run.reconcile.called
        /\ run.reconcile.cached \in {NoGenerator, run.reconcile.generator}) =>
          /\ run.reconcile.deleted = {}
          /\ (run.cmd = "cpp_check.py" /\ run.pc = "lg_configure") =>
                bdir = [run.files0.bdir EXCEPT !.exists = TRUE]
    /\ \A generator \in {Ninja, VisualStudio} :
          LET once == reconcile_generator(bdir, generator)
          IN  Deleted(once, reconcile_generator(once, generator)) = {}

\* the second of two runs reconciles a directory whose cache an earlier run
\* removed and deletes nothing; a directory with a cache without generator
\* line is left alone as well
C30_Witness ==
    /\ runs = 2
    /\ run.cmd = "cpp_check.py"
    /\ run.pc = "lg_configure"
    /\ run.files0.bdir.exists
    /\ run.files0.bdir.cache = NoCache
    /\ ~run.files0.bdir.cmake_files
    /\ run.reconcile.deleted = {}

\* the recorded generator of the run's reconciliation differed from the
\* desired one and the reconciliation returned
Invalidated ==
    /\ run.reconcile.called
    /\ run.reconcile.cached \notin {NoGenerator, run.reconcile.generator}
    /\ result # "raised"

\* C31: when the cache records another generator than the desired one, the
\* reconciliation removes CMakeCache.txt and CMakeFiles, whichever exist,
\* before configure runs, and every other entry of build/ stays
C31_Invalidated ==
    /\ (Invalidated /\ run.pc = "lg_configure") =>
          /\ bdir = [run.files0.bdir EXCEPT !.cache = NoCache,
                                            !.cmake_files = FALSE]
          /\ run.reconcile.deleted =
                {"CMakeCache.txt"}
                   \cup (IF run.files0.bdir.cmake_files THEN {"CMakeFiles"}
                         ELSE {})
    /\ (Invalidated /\ run.configure.called) => run.configure.cached = NoCache
    /\ (run.reconcile.called /\ result = "raised") => ~run.configure.called

\* the cache of the other generator was found next to CMakeFiles and an
\* executable, and configure is about to run
C31_Witness ==
    /\ Invalidated
    /\ run.pc = "lg_configure"
    /\ run.files0.bdir.cmake_files
    /\ run.files0.bdir.predategrip
    /\ bdir.predategrip

\* the clean steps of build_backend and of build.py
CleanSteps == {"be:clean", "clean"}

\* the log holds a clean step
Cleaned(log) == \E i \in 1..Len(log) : log[i] \in CleanSteps

\* C32: a build without the clean flag takes no clean step, and an existing
\* build directory whose cache fits the generator is found with that cache
\* when configure runs; a build with the clean flag configures in a build
\* directory without cache
C32_CleanOptional ==
    run.cmd \in Builders \cup {"build.py"} =>
       /\ ~run.clean =>
             /\ ~Cleaned(invoked)
             /\ (/\ run.configure.called
                 /\ run.files0.bdir.exists
                 /\ get_cached_generator(run.files0.bdir)
                       \in {NoGenerator, run.configure.generator})
                   => run.configure.cached = run.files0.bdir.cache
       /\ (run.clean /\ run.configure.called) => run.configure.cached = NoCache

\* the categories that have a section in the notes, with their prefixes
SectionPrefix ==
    [feat |-> P_feat, fix |-> P_fix, perf |-> P_perf, refactor |-> P_refactor]

\* the bullet line of a message in the section of its category
Bullet(msg) == <<"-", " ">> \o StripPrefix(msg, SectionPrefix[CategoryOf(msg)])

\* the positions of a line in the notes
Pos(line) == {p \in 1..Len(notes.lines) : notes.lines[p] = line}

\* the notes of this run were written from a history that git listed
NotesFromHistory ==
    /\ notes.exists
    /\ Has(invoked, "notes")
    /\ Truthy(latest_tag)
    /\ GitLog(latest_tag, tags, commitLog).returncode = 0

\* C33: of two commits of the same section the one committed earlier stands
\* above the one committed later (`git log` lists the newest commit first,
\* so the commit of a later output line is the earlier commit)
C33_Chronological ==
    NotesFromHistory =>
       LET commits == get_commits_since_tag(latest_tag, tags, commitLog)
       IN  \A earlier \in 1..Len(commits), later \in 1..Len(commits) :
             (/\ earlier > later
              /\ CategoryOf(commits[earlier].message) \in DOMAIN SectionPrefix
              /\ CategoryOf(commits[earlier].message)
                    = CategoryOf(commits[later].message)
              /\ commits[earlier].message # commits[later].message)
                => \E p \in Pos(Bullet(commits[earlier].message)),
                      q \in Pos(Bullet(commits[later].message)) : p < q

Letters ==
    {"a", "b", "c", "d", "e", "f", "g", "h", "i", "j", "k", "l", "m", "n", "o",
     "p", "q", "r", "s", "t", "u", "v", "w", "x", "y", "z"}

\* s after a scope in parentheses at its start, s when it has none
RECURSIVE AfterScope(_)
AfterScope(s) ==
    IF s = <<>> \/ Head(s) # "(" THEN s
    ELSE LET close == {i \in 1..Len(s) : s[i] = ")"}
         IN  IF close = {} THEN s
             ELSE Drop(s, CHOOSE i \in close : \A k \in close : i <= k)

\* the description of a subject: what follows the category word, its scope
\* and the colon and blanks after them; the whole subject when the word only
\* begins a longer word
Description(msg) ==
    LET rest == Drop(msg, Len(SectionPrefix[CategoryOf(msg)]))
    IN  IF rest # <<>> /\ Head(rest) \in Letters THEN msg
        ELSE LStripColonSpace(AfterScope(rest))

\* C34: every commit of a section stands in the notes as a bullet that holds
\* its description: nothing of the prefix, scope included, and all of the
\* text after it
C34_PrefixStripped ==
    NotesFromHistory =>
       LET commits == get_commits_since_tag(latest_tag, tags, commitLog)
       IN  \A i \in 1..Len(commits) :
             CategoryOf(commits[i].message) \in DOMAIN SectionPrefix =>
                Pos(<<"-", " ">> \o Description(commits[i].message)) # {}

\* the number of commits generate_release_notes has categorized
Categorized ==
    Len(categories["feat"]) + Len(categories["fix"]) + Len(categories["perf"])
       + Len(categories["refactor"]) + Len(categories["docs"])
       + Len(categories["other"])

\* C35: when a latest tag exists, the commits categorized for the notes are
\* the commits after that tag, one for one and in git's order, whether the
\* tag is named with the leading v or without it
C35_CommitsSinceTag ==
    (notes.exists /\ Has(invoked, "notes") /\ Truthy(latest_tag)) =>
       /\ Categorized = Len(commitLog)
       /\ LET commits == get_commits_since_tag(latest_tag, tags, commitLog)
          IN  /\ Len(commits) = Len(commitLog)
              /\ \A i \in 1..Len(commits) :
                    StartsWith(commitLog[i].subject, commits[i].message)

\* C36: after a successful release the archive is closed, bears the name
\* made of the resolved version, and its entries are the files of the bundle
\* directory under their paths relative to it: the binary and the web output,
\* none missing and nothing else
C36_ArchiveIsBundle ==
    (stage = "Done" /\ result = "True") =>
       /\ zip.exists /\ zip.byRun /\ ~zip.open
       /\ version = resolve_version(args, latest_tag)
       /\ zip.name = zip_name(version)
       /\ zip.entries = dist.files
       /\ \A entry \in zip.entries : dist_dir \o entry \in rglob(dist)
       /\ ExeFile \in zip.entries

\* a release over a stale bundle and a stale archive ended well with the
\* binary and two web files in the archive
C36_Witness ==
    /\ stage = "Done"
    /\ result = "True"
    /\ run.dist0 = StaleDist
    /\ zip.name = zip_name(<<"1", ".", "2", ".", "4">>)
    /\ zip.entries = {ExeFile, <<"frontend", "index.html">>,
                      <<"frontend", "app.js">>}

\* C37: every commit record has the whole subject line of its commit as its
\* message and the short hash of that commit as its hash, also for a subject
\* that holds the character | of the log format
C37_CommitRecord ==
    (notes.exists /\ Has(invoked, "notes") /\ Truthy(latest_tag)
        /\ GitLog(latest_tag, tags, commitLog).returncode = 0) =>
       LET commits == get_commits_since_tag(latest_tag, tags, commitLog)
       IN  /\ Len(commits) = Len(commitLog)
           /\ \A i \in 1..Len(commits) :
                 /\ commits[i].message = commitLog[i].subject
                 /\ commits[i].hash = commitLog[i].hash

\* release returned False in Step 3: the build had succeeded and nothing was
\* copied
FailedAtPackaging ==
    /\ stage = "Failed"
    /\ buildResult = "ok"
    /\ ~Has(invoked, "copy")

\* C38: when release fails at Packaging because the binary or the web output
\* is missing, the bundle directory exists and is empty, whatever an earlier
\* invocation left in it, and the run has written neither notes nor archive
C38_EmptyBundleOnFailure ==
    FailedAtPackaging =>
       /\ ~(build.exe /\ build.frontend_exists)
       /\ dist = EmptyDir
       /\ notes = NoNotes
       /\ ~Has(invoked, "notes")
       /\ ~zip.byRun
       /\ zip \in {NoZip, StaleZip}
       /\ result = "False"

\* the web output was missing after a build that reported success, and the
\* bundle of an earlier invocation is gone
C38_Witness ==
    /\ FailedAtPackaging
    /\ run.dist0 = StaleDist
    /\ build.exe
    /\ ~build.frontend_exists
    /\ zip = StaleZip

====
